---- MODULE Spec2Model ----
(***************************************************************************)
(* A model of the URL transformation engine (src/url-transformer), of the  *)
(* metadata link parser that calls it and of the scheduled auto-processing *)
(* of the plugin.                                                          *)
(*                                                                         *)
(* Strings are sequences of one-character strings, so that hostname        *)
(* matching, template substitution and origin extraction are computed      *)
(* character by character as the code computes them.                       *)
(***************************************************************************)
EXTENDS Integers, Sequences, FiniteSets, TLC

(***************************************************************************)
(* String primitives (JavaScript String methods used by the code).         *)
(***************************************************************************)

\* s.startsWith(p)
StartsWith(s, p) == Len(p) <= Len(s) /\ SubSeq(s, 1, Len(p)) = p

\* s.endsWith(p)
EndsWith(s, p) == Len(p) <= Len(s) /\ SubSeq(s, Len(s) - Len(p) + 1, Len(s)) = p

\* s.substring(from): the characters from the 0-based index from to the end
Substring(s, from) == SubSeq(s, from + 1, Len(s))

\* s.indexOf(p), 1-based; 0 when p does not occur in s
IndexOf(s, p) ==
    LET hits == {i \in 1..(Len(s) - Len(p) + 1) : SubSeq(s, i, i + Len(p) - 1) = p}
    IN  IF hits = {} THEN 0 ELSE CHOOSE i \in hits : \A j \in hits : i <= j

\* s.includes(p)
Includes(s, p) == IndexOf(s, p) # 0

\* The replacement text String.prototype.replace substitutes for a match:
\* in the replacement string, dollar dollar stands for one dollar sign, dollar
\* ampersand for the matched text, dollar backtick for the text before the
\* match and dollar apostrophe for the text after it.
\* (the backtick character is written "backtick": the lexer rejects it in a string)
Backtick == "backtick"

RECURSIVE ExpandReplacement(_, _, _, _)
ExpandReplacement(rep, matched, before, after) ==
    IF rep = << >> THEN << >>
    ELSE IF rep[1] = "$" /\ Len(rep) >= 2 /\ rep[2] \in {"$", "&", Backtick, "'"}
         THEN (CASE rep[2] = "$" -> <<"$">>
                 [] rep[2] = "&" -> matched
                 [] rep[2] = Backtick -> before
                 [] OTHER        -> after)
              \o ExpandReplacement(SubSeq(rep, 3, Len(rep)), matched, before, after)
         ELSE <<rep[1]>> \o ExpandReplacement(Tail(rep), matched, before, after)

\* s.replace(pat, rep) with a string pattern: the first occurrence only
Replace(s, pat, rep) ==
    LET i == IndexOf(s, pat)
    IN  IF i = 0 THEN s
        ELSE LET before == SubSeq(s, 1, i - 1)
                 after  == SubSeq(s, i + Len(pat), Len(s))
             IN  before \o ExpandReplacement(rep, pat, before, after) \o after

(***************************************************************************)
(* new URL(s): the parts the code reads.  The modelled URLs are lower-case *)
(* http(s) URLs without credentials or port, for which the hostname is the *)
(* text between "//" and the first "/", "?" or "#"; anything else fails to *)
(* parse (the constructor throws).                                         *)
(***************************************************************************)

SchemeHttps == <<"h", "t", "t", "p", "s", ":">>
SchemeHttp  == <<"h", "t", "t", "p", ":">>
Slashes     == <<"/", "/">>

\* the first index >= from at which a character of cs occurs, or Len(s) + 1
FirstOf(s, cs, from) ==
    LET hits == {i \in from..Len(s) : s[i] \in cs}
    IN  IF hits = {} THEN Len(s) + 1 ELSE CHOOSE i \in hits : \A j \in hits : i <= j

ParseUrl(s) ==
    LET protocol == IF StartsWith(s, SchemeHttps \o Slashes) THEN SchemeHttps
                    ELSE IF StartsWith(s, SchemeHttp \o Slashes) THEN SchemeHttp
                    ELSE << >>
        hostFrom == Len(protocol) + 3
        hostTo   == FirstOf(s, {"/", "?", "#"}, hostFrom)
        pathTo   == FirstOf(s, {"?", "#"}, hostTo)
        hashFrom == FirstOf(s, {"#"}, hostTo)
        hostname == SubSeq(s, hostFrom, hostTo - 1)
        path     == SubSeq(s, hostTo, pathTo - 1)
        search   == SubSeq(s, pathTo, hashFrom - 1)
        hash     == SubSeq(s, hashFrom, Len(s))
    IN  IF protocol = << >> \/ hostname = << >>
        THEN [ok |-> FALSE, protocol |-> << >>, hostname |-> << >>,
              pathname |-> << >>, search |-> << >>, hash |-> << >>]
        ELSE [ok |-> TRUE, protocol |-> protocol, hostname |-> hostname,
              pathname |-> IF path = << >> THEN <<"/">> ELSE path,
              \* a lone "?" or "#" reads back as the empty string
              search |-> IF Len(search) <= 1 THEN << >> ELSE search,
              hash |-> IF Len(hash) <= 1 THEN << >> ELSE hash]

(***************************************************************************)
(* String constants of the code.                                           *)
(***************************************************************************)

\* "https://example.com/test"
TEST_URL ==
    <<"h", "t", "t", "p", "s", ":", "/", "/", "e", "x", "a", "m", "p", "l",
    "e", ".", "c", "o", "m", "/", "t", "e", "s", "t">>

\* "{url}"
PlaceholderUrl ==
    <<"{", "u", "r", "l", "}">>

\* "{path}"
PlaceholderPath ==
    <<"{", "p", "a", "t", "h", "}">>

\* "{domain}"
PlaceholderDomain ==
    <<"{", "d", "o", "m", "a", "i", "n", "}">>

\* "freedium-medium"
IdFreedium ==
    <<"f", "r", "e", "e", "d", "i", "u", "m", "-", "m", "e", "d", "i", "u",
    "m">>

\* "Medium via Freedium"
NameFreedium ==
    <<"M", "e", "d", "i", "u", "m", " ", "v", "i", "a", " ", "F", "r", "e",
    "e", "d", "i", "u", "m">>

\* "*.medium.com"
PatStarMedium ==
    <<"*", ".", "m", "e", "d", "i", "u", "m", ".", "c", "o", "m">>

\* "medium.com"
PatMedium ==
    <<"m", "e", "d", "i", "u", "m", ".", "c", "o", "m">>

\* "https://freedium-mirror.cfd/{url}"
TemplateFreedium ==
    <<"h", "t", "t", "p", "s", ":", "/", "/", "f", "r", "e", "e", "d", "i",
    "u", "m", "-", "m", "i", "r", "r", "o", "r", ".", "c", "f", "d", "/",
    "{", "u", "r", "l", "}">>

\* "12ft-ladder"
Id12ft ==
    <<"1", "2", "f", "t", "-", "l", "a", "d", "d", "e", "r">>

\* "12ft Ladder (General Paywall Bypass)"
Name12ft ==
    <<"1", "2", "f", "t", " ", "L", "a", "d", "d", "e", "r", " ", "(", "G",
    "e", "n", "e", "r", "a", "l", " ", "P", "a", "y", "w", "a", "l", "l",
    " ", "B", "y", "p", "a", "s", "s", ")">>

\* "*"
PatStar ==
    <<"*">>

\* "https://12ft.io/{url}"
Template12ft ==
    <<"h", "t", "t", "p", "s", ":", "/", "/", "1", "2", "f", "t", ".", "i",
    "o", "/", "{", "u", "r", "l", "}">>

\* "archive-today"
IdArchive ==
    <<"a", "r", "c", "h", "i", "v", "e", "-", "t", "o", "d", "a", "y">>

\* "Archive.today"
NameArchive ==
    <<"A", "r", "c", "h", "i", "v", "e", ".", "t", "o", "d", "a", "y">>

\* "https://archive.is/{url}"
TemplateArchive ==
    <<"h", "t", "t", "p", "s", ":", "/", "/", "a", "r", "c", "h", "i", "v",
    "e", ".", "i", "s", "/", "{", "u", "r", "l", "}">>


(***************************************************************************)
(* Rules (transformation-types.ts) and the built-in rule set.              *)
(***************************************************************************)

Rule(id, name, enabled, matchers, type, template, priority) ==
    [id |-> id, name |-> name, enabled |-> enabled, matchers |-> matchers,
     transformationType |-> type, template |-> template, priority |-> priority]

getDefaultTransformationRules ==
    << Rule(IdFreedium, NameFreedium, FALSE, <<PatStarMedium, PatMedium>>,
            "prefix", TemplateFreedium, 100),
       Rule(Id12ft, Name12ft, FALSE, <<PatStar>>, "prefix", Template12ft, 10),
       Rule(IdArchive, NameArchive, FALSE, <<PatStar>>, "prefix",
            TemplateArchive, 20) >>

(***************************************************************************)
(* URL matcher and rule resolution (UrlTransformer, private methods).      *)
(***************************************************************************)

\* A mutant of matchesPattern: a pattern *.x matches every hostname that
\* ends with the letters of x.
matchesPatternBySuffix(url, pattern) ==
    LET urlObj == ParseUrl(url)
        hostname == urlObj.hostname
    IN  IF ~urlObj.ok THEN FALSE
        ELSE IF pattern = <<"*">> THEN TRUE
        ELSE IF StartsWith(pattern, <<"*", ".">>)
             THEN EndsWith(hostname, Substring(pattern, 2))
             ELSE hostname = pattern

\* A mutant of matchesPattern: the pattern * is looked at before the URL is
\* parsed.
matchesPatternStarFirst(url, pattern) ==
    LET urlObj == ParseUrl(url)
        hostname == urlObj.hostname
    IN  IF pattern = <<"*">> THEN TRUE
        ELSE IF ~urlObj.ok THEN FALSE
        ELSE IF StartsWith(pattern, <<"*", ".">>)
             THEN LET domain == Substring(pattern, 2)
                  IN  hostname = domain \/ EndsWith(hostname, <<".">> \o domain)
             ELSE hostname = pattern

matchesPattern(url, pattern) ==
    LET urlObj == ParseUrl(url)
        hostname == urlObj.hostname
    IN  IF ~urlObj.ok THEN FALSE            \* new URL throws: caught, false
        ELSE IF pattern = <<"*">> THEN TRUE
        ELSE IF StartsWith(pattern, <<"*", ".">>)
             THEN LET domain == Substring(pattern, 2)
                  IN  hostname = domain \/ EndsWith(hostname, <<".">> \o domain)
             ELSE hostname = pattern

\* A mutant of matchesRule: the enabled flag is not looked at.
matchesRuleIgnoringEnabled(url, rule) ==
    \E i \in 1..Len(rule.matchers) : matchesPattern(url, rule.matchers[i])

matchesRule(url, rule) ==
    IF ~rule.enabled THEN FALSE
    ELSE \E i \in 1..Len(rule.matchers) : matchesPattern(url, rule.matchers[i])

\* rules.filter(pred), for the predicate "matchesRule(url, .)"
RECURSIVE FilterMatching(_, _)
FilterMatching(url, rules) ==
    IF rules = << >> THEN << >>
    ELSE (IF matchesRule(url, Head(rules)) THEN <<Head(rules)>> ELSE << >>)
         \o FilterMatching(url, Tail(rules))

\* The comparator of the sort: (a, b) => b.priority - a.priority
ComparePriority(a, b) == b.priority - a.priority

\* A sort that is not stable: an element goes before the elements already
\* placed that compare equal to it.
RECURSIVE InsertSortedBeforeEquals(_, _)
InsertSortedBeforeEquals(sorted, r) ==
    IF sorted = << >> THEN <<r>>
    ELSE IF ComparePriority(Head(sorted), r) < 0
         THEN <<Head(sorted)>> \o InsertSortedBeforeEquals(Tail(sorted), r)
         ELSE <<r>> \o sorted

\* Array.prototype.sort is stable (ECMAScript 2019): an element is placed
\* after every element already placed that the comparator does not order
\* after it.
RECURSIVE InsertSorted(_, _)
InsertSorted(sorted, r) ==
    IF sorted = << >> THEN <<r>>
    ELSE IF ComparePriority(Head(sorted), r) <= 0
         THEN <<Head(sorted)>> \o InsertSorted(Tail(sorted), r)
         ELSE <<r>> \o sorted

RECURSIVE SortFrom(_, _)
SortFrom(sorted, rest) ==
    IF rest = << >> THEN sorted
    ELSE SortFrom(InsertSorted(sorted, Head(rest)), Tail(rest))

SortByPriority(rules) == SortFrom(<< >>, rules)

\* The result is << >> for null and <<rule>> for a rule.
findMatchingRule(url, rules) ==
    LET matchingRules == FilterMatching(url, rules)
    IN  IF Len(matchingRules) = 0 THEN << >>
        ELSE <<SortByPriority(matchingRules)[1]>>

(***************************************************************************)
(* Template expander and origin extraction.                                *)
(***************************************************************************)

\* A mutant of applyTransformation: {path} stands for the path without its
\* leading slash.
applyTransformationBarePath(url, rule) ==
    LET template == rule.template
        urlObj   == ParseUrl(url)
    IN  IF rule.transformationType = "path-extraction" /\ urlObj.ok
        THEN LET path   == Tail(urlObj.pathname) \o urlObj.search \o urlObj.hash
                 domain == urlObj.hostname
             IN  Replace(Replace(Replace(template, PlaceholderUrl, url),
                                 PlaceholderPath, path),
                         PlaceholderDomain, domain)
        ELSE Replace(template, PlaceholderUrl, url)

applyTransformation(url, rule) ==
    LET template == rule.template
        urlObj   == ParseUrl(url)
    IN  IF rule.transformationType = "prefix"
        THEN Replace(template, PlaceholderUrl, url)
        ELSE IF rule.transformationType = "path-extraction"
        THEN IF urlObj.ok
             THEN LET path   == urlObj.pathname \o urlObj.search \o urlObj.hash
                      domain == urlObj.hostname
                  IN  Replace(Replace(Replace(template, PlaceholderUrl, url),
                                      PlaceholderPath, path),
                              PlaceholderDomain, domain)
             ELSE Replace(template, PlaceholderUrl, url)
        ELSE Replace(template, PlaceholderUrl, url)

extractProxyBaseUrl(transformedUrl) ==
    LET urlObj == ParseUrl(transformedUrl)
    IN  IF urlObj.ok THEN urlObj.protocol \o Slashes \o urlObj.hostname
        ELSE transformedUrl

\* "Proxy service ""
ErrorPrefix ==
    <<"P", "r", "o", "x", "y", " ", "s", "e", "r", "v", "i", "c", "e", " ",
    "\"">>

\* "" is currently unavailable"
ErrorSuffix ==
    <<"\"", " ", "i", "s", " ", "c", "u", "r", "r", "e", "n", "t", "l",
    "y", " ", "u", "n", "a", "v", "a", "i", "l", "a", "b", "l", "e">>

\* "https://medium.com/a"
UrlMedium ==
    <<"h", "t", "t", "p", "s", ":", "/", "/", "m", "e", "d", "i", "u", "m",
    ".", "c", "o", "m", "/", "a">>

\* "https://x.com/a?b=1"
UrlOther ==
    <<"h", "t", "t", "p", "s", ":", "/", "/", "x", ".", "c", "o", "m", "/",
    "a", "?", "b", "=", "1">>

\* "medium.com/a"
UrlMalformed ==
    <<"m", "e", "d", "i", "u", "m", ".", "c", "o", "m", "/", "a">>

\* "custom-1"
IdCustom1 ==
    <<"c", "u", "s", "t", "o", "m", "-", "1">>

\* "P1"
NameCustom1 ==
    <<"P", "1">>

\* "x.com"
PatX ==
    <<"x", ".", "c", "o", "m">>

\* "https://p.io/{url}"
TemplateCustom1 ==
    <<"h", "t", "t", "p", "s", ":", "/", "/", "p", ".", "i", "o", "/", "{",
    "u", "r", "l", "}">>

\* "custom-2"
IdCustom2 ==
    <<"c", "u", "s", "t", "o", "m", "-", "2">>

\* "P2"
NameCustom2 ==
    <<"P", "2">>

\* "*.x.com"
PatStarX ==
    <<"*", ".", "x", ".", "c", "o", "m">>

\* "https://p.io/{domain}{path}"
TemplateCustom2 ==
    <<"h", "t", "t", "p", "s", ":", "/", "/", "p", ".", "i", "o", "/", "{",
    "d", "o", "m", "a", "i", "n", "}", "{", "p", "a", "t", "h", "}">>


(***************************************************************************)
(* State.                                                                  *)
(*                                                                         *)
(* One UrlTransformer and the one asynchronous call that runs on it: in    *)
(* the repository every transformer belongs to one parser (or to one press *)
(* of the settings button), which awaits each call before making the next. *)
(***************************************************************************)
VARIABLES
    healthCache,  \* UrlTransformer.healthCache: origin -> [healthy, lastChecked]
    now,          \* Date.now(), in milliseconds
    advances,     \* how many times the clock was advanced
    pc,           \* where the call on the transformer is
    call,         \* the call's arguments and locals
    inflight,     \* the requestUrl the call is suspended on, with its timer
    requests,     \* the URLs the call has requested so far, in order
    lastResponse, \* how the call's latest request settled
    result,       \* what transformUrl returned: << >> or <<TransformationResult>>
    testResults   \* the Map testAllProxies fills: rule name -> healthy

tvars == <<healthCache, now, advances, pc, call, inflight, requests,
           lastResponse, result, testResults>>

\* findMatchingRule called on its own
VARIABLES
    fmUrl,        \* the argument url
    fmRules,      \* the argument rules
    fmResults     \* what the calls made so far returned, in order

fvars == <<fmUrl, fmRules, fmResults>>

\* The parsers at work on the vault
VARIABLES
    vault,        \* app.vault: file -> document
    config,       \* configManager.getConfig()
    tasks,        \* the operations in progress, each with its own parser
    started,      \* how many operations were started
    autoAppends   \* file -> how often autoProcessFileIfLonger appended to it

pvars == <<vault, config, tasks, started, autoAppends>>

\* The plugin in its host: its instances, one per enabling, and the interval
\* timers of the window
VARIABLES
    plugins,       \* the instances of MetadataLinkParserPlugin, in order of creation
    timers,        \* the timers window.setInterval created: id -> [owner, live]
    scheduledRuns, \* the scans runAutoProcessing started, in order
    changes,       \* how many settings were changed
    ticks          \* how many times a timer fired

lvars == <<plugins, timers, scheduledRuns, changes, ticks>>

\* matchesPattern and applyTransformation called on their own
VARIABLES
    fnCalls       \* the calls made so far, each with its arguments and its value

uvars == <<fnCalls>>

\* The configuration manager and the file it keeps
VARIABLES
    configFile,    \* .obsidian/url-transformations.json: what it holds, if there
    managerConfig, \* this.config of the TransformationConfigManager
    loadReturn,    \* the last loadConfig: what the file held and what it returned
    configLoads,   \* how many times loadConfig was called
    configCall,    \* the last edit of the rules since loadConfig, if any
    configEdits    \* how many times the rules were edited

cvars == <<configFile, managerConfig, loadReturn, configLoads, configCall,
          configEdits>>

\* The note services and the notes they create
VARIABLES
    reachable,     \* the URLs fetch answers with an ok response
    noteService,   \* what getNoteService returned, if it was called
    notes,         \* the notes created in the vault, in order of creation
    lastNoteCall,  \* the last call on the note service, with what it returned
    noteCalls      \* how many calls were made on the note service

nvars == <<reachable, noteService, notes, lastNoteCall, noteCalls>>

vars == <<tvars, fvars, pvars, lvars, uvars, cvars, nvars>>

\* constructor(cacheTtlMinutes = 5, timeoutMs = 5000)
cacheTtlMinutes == 5
timeoutMs == 5000
cacheTtlMs == cacheTtlMinutes * 60 * 1000

\* The clock advances at most MaxAdvances times, by one of ClockSteps.
MaxAdvances == 2
ClockSteps == {1, cacheTtlMs - 1}

\* What a HEAD request may come back with: a status, or a thrown error
\* (network failure, or requestUrl rejecting an error status).
Statuses == {199, 200, 399, 400}
Responses ==
    {[threw |-> TRUE, status |-> 0]} \cup [threw : {FALSE}, status : Statuses]
\* A settled request as recorded: the response, and whether the abort timer
\* had fired before it came.
NoResponse == [threw |-> FALSE, status |-> 0, timedOut |-> FALSE]

\* The inputs of the calls.
Urls == {UrlMedium, UrlOther, UrlMalformed}

\* "custom-3"
IdCustom3 ==
    <<"c", "u", "s", "t", "o", "m", "-", "3">>

\* "P3"
NameCustom3 ==
    <<"P", "3">>

\* "https://q.io/{url}"
TemplateCustom3 ==
    <<"h", "t", "t", "p", "s", ":", "/", "/", "q", ".", "i", "o", "/", "{",
    "u", "r", "l", "}">>

\* Custom rules: two of equal priority that match x.com and share the origin
\* https://p.io, and a universal fallback of lower priority on https://q.io.
RuleCustom1 ==
    Rule(IdCustom1, NameCustom1, TRUE, <<PatX>>, "prefix", TemplateCustom1, 50)
RuleCustom2 ==
    Rule(IdCustom2, NameCustom2, TRUE, <<PatStarX>>, "path-extraction",
         TemplateCustom2, 50)
RuleCustom3 ==
    Rule(IdCustom3, NameCustom3, TRUE, <<PatStar>>, "prefix", TemplateCustom3, 10)
RuleSets ==
    { << >>, getDefaultTransformationRules,
      <<RuleCustom1, RuleCustom2, RuleCustom3>>,
      <<RuleCustom3, RuleCustom2, RuleCustom1>>,
      <<[RuleCustom1 EXCEPT !.enabled = FALSE], RuleCustom3>> }

(***************************************************************************)
(* Maps (a JavaScript object or Map): functions on the set of their keys.  *)
(***************************************************************************)
MapSet(f, k, v) == [x \in DOMAIN f \cup {k} |-> IF x = k THEN v ELSE f[x]]
\* A mutant of MapDelete: the key stays.
MapDeleteNothing(f, k) == f

MapDelete(f, k) == [x \in DOMAIN f \ {k} |-> f[x]]
EmptyMap == << >>

(***************************************************************************)
(* Proxy health cache and checker.                                         *)
(***************************************************************************)

\* A mutant of isCacheValid: the age in milliseconds is compared with the
\* time-to-live in minutes.
isCacheValidTtlInMinutes(cache, proxyBaseUrl) ==
    IF proxyBaseUrl \notin DOMAIN cache THEN FALSE
    ELSE (now - cache[proxyBaseUrl].lastChecked) < cacheTtlMinutes

\* A mutant of isCacheValid: an entry that says unhealthy is never valid.
isCacheValidHealthyOnly(cache, proxyBaseUrl) ==
    IF proxyBaseUrl \notin DOMAIN cache THEN FALSE
    ELSE /\ cache[proxyBaseUrl].healthy
         /\ (now - cache[proxyBaseUrl].lastChecked) < cacheTtlMs

\* A mutant of isCacheValid: an entry never expires.
isCacheValidNoExpiry(cache, proxyBaseUrl) == proxyBaseUrl \in DOMAIN cache

\* isCacheValid, reading the cache given (this.healthCache) and Date.now()
isCacheValid(cache, proxyBaseUrl) ==
    IF proxyBaseUrl \notin DOMAIN cache THEN FALSE
    ELSE (now - cache[proxyBaseUrl].lastChecked) < cacheTtlMs

\* A mutant of checkProxyHealthWithTimeout: the status 400 counts as healthy.
checkProxyHealthWithTimeoutUpTo400(response) ==
    IF response.threw
    THEN [threw |-> FALSE, value |-> FALSE]
    ELSE [threw |-> FALSE,
          value |-> response.status >= 200 /\ response.status <= 400]

\* checkProxyHealthWithTimeout, from the response on: what it returns, or
\* that it throws.
checkProxyHealthWithTimeout(response) ==
    IF response.threw
    THEN [threw |-> FALSE, value |-> FALSE]                       \* catch
    ELSE [threw |-> FALSE,
          value |-> response.status >= 200 /\ response.status < 400]

\* The TransformationResult values transformUrl builds.
Null == << >>
Some(x) == <<x>>

PassThroughResult(url) ==
    [transformedUrl |-> Some(url), originalUrl |-> url, appliedRule |-> Null,
     proxyHealthy |-> TRUE, error |-> Null]

\* A mutant of ProxyDownResult: the original URL stands in for the proxied one.
ProxyDownResultFallsBack(url, matchingRule) ==
    [transformedUrl |-> Some(url), originalUrl |-> url,
     appliedRule |-> Some(matchingRule.name), proxyHealthy |-> FALSE,
     error |-> Some(ErrorPrefix \o matchingRule.name \o ErrorSuffix)]

ProxyDownResult(url, matchingRule) ==
    [transformedUrl |-> Null, originalUrl |-> url,
     appliedRule |-> Some(matchingRule.name), proxyHealthy |-> FALSE,
     error |-> Some(ErrorPrefix \o matchingRule.name \o ErrorSuffix)]

TransformedResult(url, transformedUrl, matchingRule) ==
    [transformedUrl |-> Some(transformedUrl), originalUrl |-> url,
     appliedRule |-> Some(matchingRule.name), proxyHealthy |-> TRUE,
     error |-> Null]

\* The call as a value, so that the synchronous stretches of the code are
\* functions from one suspension to the next.
Machine ==
    [healthCache |-> healthCache, pc |-> pc, call |-> call,
     inflight |-> inflight, requests |-> requests,
     lastResponse |-> lastResponse, result |-> result,
     testResults |-> testResults]

Set(m) ==
    /\ healthCache' = m.healthCache
    /\ pc' = m.pc
    /\ call' = m.call
    /\ inflight' = m.inflight
    /\ requests' = m.requests
    /\ lastResponse' = m.lastResponse
    /\ result' = m.result
    /\ testResults' = m.testResults

NoCall ==
    [mode |-> "none", url |-> << >>, rules |-> << >>, idx |-> 0,
     rule |-> Null, transformedUrl |-> Null, proxyBaseUrl |-> << >>]

\* await requestUrl({url, method: "HEAD"}) with the abort timer set
Suspend(m, at, url) ==
    [m EXCEPT !.pc = at,
              !.inflight = <<[url |-> url, startedAt |-> now, aborted |-> FALSE]>>,
              !.requests = Append(@, url)]

\* this.healthCache[proxyBaseUrl] = { healthy, lastChecked: Date.now() }
StoreHealth(m, healthy) ==
    [m EXCEPT !.healthCache =
        MapSet(@, m.call.proxyBaseUrl, [healthy |-> healthy, lastChecked |-> now])]

RECURSIVE checkProxyHealth(_, _, _)
RECURSIVE Resume(_, _)
RECURSIVE testAllLoop(_, _)

\* A mutant of checkProxyHealth: the cache is keyed by the id of the rule.
checkProxyHealthKeyedByRule(m, proxyBaseUrl, rule) ==
    LET c == [m EXCEPT !.call.proxyBaseUrl = rule.id, !.call.rule = Some(rule)]
    IN  IF isCacheValid(c.healthCache, rule.id)
        THEN Resume(c, c.healthCache[rule.id].healthy)
        ELSE Suspend(c, "probeTest", applyTransformation(TEST_URL, rule))

\* checkProxyHealth up to its return (a cache hit) or its first request
checkProxyHealth(m, proxyBaseUrl, rule) ==
    LET c == [m EXCEPT !.call.proxyBaseUrl = proxyBaseUrl, !.call.rule = Some(rule)]
    IN  IF isCacheValid(c.healthCache, proxyBaseUrl)
        THEN Resume(c, c.healthCache[proxyBaseUrl].healthy)
        ELSE Suspend(c, "probeTest", applyTransformation(TEST_URL, rule))

\* The caller of checkProxyHealth goes on with the value it returned.
Resume(m, isHealthy) ==
    LET matchingRule == m.call.rule[1]
    IN  IF m.call.mode = "transformUrl"
        THEN IF ~isHealthy
             THEN [m EXCEPT !.pc = "returned",
                            !.result = Some(ProxyDownResult(m.call.url, matchingRule))]
             ELSE [m EXCEPT !.pc = "returned",
                            !.result = Some(TransformedResult(m.call.url,
                                              m.call.transformedUrl[1], matchingRule))]
        ELSE testAllLoop([m EXCEPT !.testResults = MapSet(@, matchingRule.name, isHealthy)],
                         m.call.idx + 1)

\* testAllProxies: the loop from rule i on
testAllLoop(m, i) ==
    IF i > Len(m.call.rules) THEN [m EXCEPT !.pc = "returned", !.call.idx = i]
    ELSE IF ~m.call.rules[i].enabled THEN testAllLoop(m, i + 1)
    ELSE LET rule == m.call.rules[i]
             testUrl == applyTransformation(TEST_URL, rule)
             proxyBaseUrl == extractProxyBaseUrl(testUrl)
         IN  checkProxyHealth([m EXCEPT !.call.idx = i,
                                        !.healthCache = MapDelete(@, proxyBaseUrl)],
                              proxyBaseUrl, rule)

NewCall(m, mode, url, rules) ==
    [m EXCEPT !.call = [NoCall EXCEPT !.mode = mode, !.url = url, !.rules = rules],
              !.requests = << >>, !.lastResponse = NoResponse, !.result = Null,
              !.testResults = EmptyMap]

transformUrl(m, url, rules) ==
    LET c == NewCall(m, "transformUrl", url, rules)
        matchingRule == findMatchingRule(url, rules)
    IN  IF matchingRule = Null
        THEN [c EXCEPT !.pc = "returned", !.result = Some(PassThroughResult(url))]
        ELSE LET transformedUrl == applyTransformation(url, matchingRule[1])
                 proxyBaseUrl == extractProxyBaseUrl(transformedUrl)
             IN  checkProxyHealth([c EXCEPT !.call.transformedUrl = Some(transformedUrl)],
                                  proxyBaseUrl, matchingRule[1])

testAllProxies(m, rules) == testAllLoop(NewCall(m, "testAllProxies", << >>, rules), 1)

(***************************************************************************)
(* Actions of the transformer.                                             *)
(***************************************************************************)
CallOver == pc \in {"idle", "returned", "rejected"}

TransformUrl ==
    /\ CallOver
    /\ \E url \in Urls, rules \in RuleSets : Set(transformUrl(Machine, url, rules))
    /\ UNCHANGED <<now, advances, fvars, pvars, lvars, uvars, cvars, nvars>>

TestAllProxies ==
    /\ CallOver
    /\ \E rules \in RuleSets : Set(testAllProxies(Machine, rules))
    /\ UNCHANGED <<now, advances, fvars, pvars, lvars, uvars, cvars, nvars>>

\* The request of machine m settles: checkProxyHealthWithTimeout returns, and
\* checkProxyHealth goes on to the fallback request or to the cache write.
requestSettles(m, response) ==
    LET r == checkProxyHealthWithTimeout(response)
        c == [m EXCEPT
                !.inflight = << >>,                    \* clearTimeout
                !.lastResponse = [threw |-> response.threw,
                                  status |-> response.status,
                                  timedOut |-> m.inflight[1].aborted]]
    IN  IF r.threw THEN [c EXCEPT !.pc = "rejected"]
        ELSE IF m.pc = "probeTest" /\ ~r.value
             THEN Suspend(c, "probeBase", m.call.proxyBaseUrl)
             ELSE Resume(StoreHealth(c, r.value), r.value)

ProbeResponds ==
    /\ pc \in {"probeTest", "probeBase"}
    /\ \E response \in Responses : Set(requestSettles(Machine, response))
    /\ UNCHANGED <<now, advances, fvars, pvars, lvars, uvars, cvars, nvars>>

\* The timer of checkProxyHealthWithTimeout fires: controller.abort().  The
\* controller's signal was not handed to requestUrl, so the request goes on.
TimeoutFires ==
    /\ inflight # << >>
    /\ ~inflight[1].aborted
    /\ now - inflight[1].startedAt >= timeoutMs
    /\ inflight' = <<[inflight[1] EXCEPT !.aborted = TRUE]>>
    /\ UNCHANGED <<healthCache, now, advances, pc, call, requests, lastResponse,
                   result, testResults, fvars, pvars, lvars, uvars, cvars, nvars>>

ClearCache ==
    /\ healthCache' = EmptyMap
    /\ UNCHANGED <<now, advances, pc, call, inflight, requests, lastResponse,
                   result, testResults, fvars, pvars, lvars, uvars, cvars, nvars>>

Advance ==
    /\ advances < MaxAdvances
    /\ \E dt \in ClockSteps : now' = now + dt
    /\ advances' = advances + 1
    /\ UNCHANGED <<healthCache, pc, call, inflight, requests, lastResponse,
                   result, testResults, fvars, pvars, lvars, uvars, cvars, nvars>>

\* new UrlTransformer(), and the clock at its origin
NewTransformer ==
    /\ healthCache = EmptyMap
    /\ now = 0
    /\ advances = 0
    /\ pc = "idle"
    /\ call = NoCall
    /\ inflight = << >>
    /\ requests = << >>
    /\ lastResponse = NoResponse
    /\ result = Null
    /\ testResults = EmptyMap

\* findMatchingRule is not being exercised on its own
NoFinder ==
    /\ fmUrl = << >>
    /\ fmRules = << >>
    /\ fmResults = << >>

\* no vault and no parser
NoParser ==
    /\ vault = EmptyMap
    /\ config = EmptyMap
    /\ tasks = << >>
    /\ started = 0
    /\ autoAppends = EmptyMap

\* the plugin is not being exercised in its host
NoPlugin ==
    /\ plugins = << >>
    /\ timers = << >>
    /\ scheduledRuns = << >>
    /\ changes = 0
    /\ ticks = 0

\* matchesPattern and applyTransformation are not being exercised on their own
NoFunctions == fnCalls = << >>

\* no note service at work
NoNoteService ==
    /\ reachable = {}
    /\ noteService = << >>
    /\ notes = << >>
    /\ lastNoteCall = << >>
    /\ noteCalls = 0

\* no configuration file and no configuration manager at work
NoConfigManager ==
    /\ configFile = << >>
    /\ managerConfig = << >>
    /\ loadReturn = << >>
    /\ configLoads = 0
    /\ configCall = << >>
    /\ configEdits = 0

TransformerInit ==
    /\ NewTransformer
    /\ NoFinder
    /\ NoParser
    /\ NoPlugin
    /\ NoFunctions
    /\ NoConfigManager
    /\ NoNoteService

TransformerNext ==
    \/ TransformUrl
    \/ TestAllProxies
    \/ ProbeResponds
    \/ TimeoutFires
    \/ ClearCache
    \/ Advance

SpecTransformer == TransformerInit /\ [][TransformerNext]_vars

(***************************************************************************)
(* Properties of the transformer.                                          *)
(***************************************************************************)

\* transformUrl has returned
ReturnedTransform == pc = "returned" /\ call.mode = "transformUrl"

\* rule r is enabled and one of its patterns matches url
Applicable(url, r) ==
    r.enabled /\ \E j \in 1..Len(r.matchers) : matchesPattern(url, r.matchers[j])

NoEnabledRuleMatches(url, rules) ==
    \A i \in 1..Len(rules) : ~Applicable(url, rules[i])

\* the origin whose health a transformation of url by rule depends on
OriginOf(url, rule) == extractProxyBaseUrl(applyTransformation(url, rule))

\* a step that starts a call on the transformer
CallStep ==
    /\ CallOver
    /\ <<pc, call, requests, result, testResults>>'
         # <<pc, call, requests, result, testResults>>

\* a step in which the request in flight settles
Settles ==
    /\ pc \in {"probeTest", "probeBase"}
    /\ (pc' # pc \/ requests' # requests)

\* the entry of origin is younger than the time-to-live
Fresh(origin) ==
    /\ origin \in DOMAIN healthCache
    /\ now - healthCache[origin].lastChecked < cacheTtlMs

\* the entry of origin is older than the time-to-live
Expired(origin) ==
    /\ origin \in DOMAIN healthCache
    /\ now - healthCache[origin].lastChecked > cacheTtlMs

\* C1: when an enabled rule matches, the result of transformUrl names the
\* matched rule and has one of two shapes: the health check of the origin of
\* the transformed URL is healthy, and the result has a transformed URL,
\* proxyHealthy true and no error; or it is unhealthy, and the result has no
\* transformed URL, proxyHealthy false and a non-empty error that contains the
\* rule's name.
C1_MatchedResultShape ==
    (ReturnedTransform /\ ~NoEnabledRuleMatches(call.url, call.rules)) =>
        LET matched == findMatchingRule(call.url, call.rules)
            r == result[1]
        IN  /\ matched # Null
            /\ result # Null
            /\ r.appliedRule = Some(matched[1].name)
            /\ r.originalUrl = call.url
            /\ \/ /\ r.transformedUrl = Some(applyTransformation(call.url, matched[1]))
                  /\ r.proxyHealthy = TRUE
                  /\ r.error = Null
               \/ /\ r.transformedUrl = Null
                  /\ r.proxyHealthy = FALSE
                  /\ r.error # Null
                  /\ r.error[1] # << >>
                  /\ Includes(r.error[1], matched[1].name)
            /\ LET origin == OriginOf(call.url, matched[1])
               IN  origin \in DOMAIN healthCache =>
                       r.proxyHealthy = healthCache[origin].healthy

\* C1 witness: transformUrl has returned the proxy-down shape for a matched rule.
C1_Witness ==
    /\ ReturnedTransform
    /\ ~NoEnabledRuleMatches(call.url, call.rules)
    /\ result # Null
    /\ result[1].transformedUrl = Null
    /\ OriginOf(call.url, call.rule[1]) \in DOMAIN healthCache

\* C2: when no enabled rule matches (an empty rule set and a rule set of
\* disabled rules included), transformUrl returns the input URL as the
\* transformed URL, proxyHealthy true and no applied rule, requests nothing
\* and leaves the health cache as it was.
C2_NoMatchPassThrough ==
    [][ ( /\ CallStep
          /\ call'.mode = "transformUrl"
          /\ NoEnabledRuleMatches(call'.url, call'.rules) )
        => ( /\ pc' = "returned"
             /\ result' # Null
             /\ result'[1].transformedUrl = Some(call'.url)
             /\ result'[1].proxyHealthy = TRUE
             /\ result'[1].appliedRule = Null
             /\ requests' = << >>
             /\ inflight' = << >>
             /\ healthCache' = healthCache ) ]_vars

\* C2 witness: a URL that the disabled built-in rules would match has passed
\* through a transformer whose cache holds an entry.
C2_Witness ==
    /\ ReturnedTransform
    /\ call.url = UrlMedium
    /\ call.rules = getDefaultTransformationRules
    /\ result = Some(PassThroughResult(UrlMedium))
    /\ healthCache # EmptyMap

\* C4: a health check of an origin whose entry is younger than the
\* time-to-live requests nothing: it returns the cached boolean and leaves the
\* cache as it is.
C4_FreshEntryIsCacheRead ==
    [][ ( /\ CallStep
          /\ call'.mode = "transformUrl"
          /\ call'.rule # Null
          /\ Fresh(call'.proxyBaseUrl) )
        => ( /\ pc' = "returned"
             /\ requests' = << >>
             /\ inflight' = << >>
             /\ healthCache' = healthCache
             /\ result'[1].proxyHealthy = healthCache[call'.proxyBaseUrl].healthy )
      ]_vars

\* C4 witness: some time after an origin was found unhealthy, a call for it
\* has returned without a request.
C4_Witness ==
    /\ ReturnedTransform
    /\ call.rule # Null
    /\ requests = << >>
    /\ result[1].proxyHealthy = FALSE
    /\ call.proxyBaseUrl \in DOMAIN healthCache
    /\ now > healthCache[call.proxyBaseUrl].lastChecked

\* C5 as stated: a health check that finds an entry older than the
\* time-to-live makes exactly one request.
C5_ExpiredEntryOneRequest ==
    [][ ( /\ Settles
          /\ call.mode = "transformUrl"
          /\ Expired(call.proxyBaseUrl)
          /\ pc' = "returned" )
        => Len(requests') = 1 ]_vars

\* C5, amended: an entry older than the time-to-live is not answered from: the
\* check requests the rule's expanded test URL and, only when that is not
\* healthy, the bare origin (one round of one or two requests), and on
\* completion overwrites the entry with the new result and the current time.
C5_ExpiredEntryOneProbeRound ==
    [][ /\ ( /\ CallStep
             /\ call'.mode = "transformUrl"
             /\ call'.rule # Null
             /\ Expired(call'.proxyBaseUrl) )
           => ( /\ pc' = "probeTest"
                /\ requests' = <<applyTransformation(TEST_URL, call'.rule[1])>>
                /\ healthCache' = healthCache )
        /\ ( /\ Settles
             /\ call.mode = "transformUrl"
             /\ Expired(call.proxyBaseUrl)
             /\ pc' = "returned" )
           => ( /\ healthCache'[call.proxyBaseUrl] =
                     [healthy |-> result'[1].proxyHealthy, lastChecked |-> now]
                /\ IF pc = "probeTest"
                   THEN /\ result'[1].proxyHealthy
                        /\ requests' = <<applyTransformation(TEST_URL, call.rule[1])>>
                   ELSE requests' = <<applyTransformation(TEST_URL, call.rule[1]),
                                      call.proxyBaseUrl>> )
      ]_vars

\* C5 witness: the entry of the origin is older than the time-to-live and the
\* fallback request of the check that found it is in flight.
C5_Witness ==
    /\ pc = "probeBase"
    /\ call.mode = "transformUrl"
    /\ Expired(call.proxyBaseUrl)

\* a response that is a failure: thrown, a status outside [200, 400), or
\* arrived after the configured timeout
FailedResponse(r) == r.threw \/ r.status < 200 \/ r.status >= 400 \/ r.timedOut

\* C6: a probe that ends in a network error, a timeout or a status outside
\* [200, 400) throws nothing and counts as not healthy: the first probe goes
\* on to the fallback probe, and the fallback probe ends the check with
\* healthy = false, cached for the origin with the current time and reported
\* by transformUrl as the proxy-down result.
C6_FailedProbeIsUnhealthy ==
    [][ ( /\ Settles
          /\ call.mode = "transformUrl"
          /\ FailedResponse(lastResponse') )
        => ( /\ pc' # "rejected"
             /\ pc = "probeTest" => pc' = "probeBase"
             /\ pc = "probeBase" =>
                  /\ pc' = "returned"
                  /\ healthCache'[call.proxyBaseUrl] =
                       [healthy |-> FALSE, lastChecked |-> now]
                  /\ result' = Some(ProxyDownResult(call.url, call.rule[1])) )
      ]_vars

\* C7: once the configured timeout of a probe has passed (its timer fired),
\* the request is no longer in flight.
C7_TimedOutRequestIsAborted == inflight # << >> => ~inflight[1].aborted

(***************************************************************************)
(* findMatchingRule as a function of its arguments: the URL is one of      *)
(* Urls, the rule list any list of at most MaxRules rules of RulePool, and *)
(* the function is called up to MaxCalls times on the same arguments.      *)
(***************************************************************************)
MaxRules == 3
MaxCalls == 2

\* Enabled custom rules (two of them of equal priority) and the built-in
\* rules, which are disabled: one of the highest priority, one whose priority
\* equals that of an enabled rule.
RulePool ==
    {RuleCustom1, RuleCustom2, RuleCustom3}
        \cup {getDefaultTransformationRules[i] : i \in 1..3}

RuleLists == UNION {[1..n -> RulePool] : n \in 0..MaxRules}

FindMatchingRule ==
    /\ Len(fmResults) < MaxCalls
    /\ fmResults' = Append(fmResults, findMatchingRule(fmUrl, fmRules))
    /\ UNCHANGED <<fmUrl, fmRules, tvars, pvars, lvars, uvars, cvars, nvars>>

FinderInit ==
    /\ fmUrl \in Urls
    /\ fmRules \in RuleLists
    /\ fmResults = << >>
    /\ NewTransformer
    /\ NoParser
    /\ NoPlugin
    /\ NoFunctions
    /\ NoConfigManager
    /\ NoNoteService

FinderNext == FindMatchingRule

SpecFinder == FinderInit /\ [][FinderNext]_vars

\* the positions of the rules of fmRules that are enabled and match fmUrl
ApplicableIn == {i \in 1..Len(fmRules) : Applicable(fmUrl, fmRules[i])}

\* C3: findMatchingRule looks at enabled rules with a matching pattern only:
\* it returns none when there is no such rule, and otherwise the rule of
\* highest priority among them, the first one in the order of the input when
\* several share that priority; every call on the same input returns the same.
C3_HighestPriorityFirstInOrder ==
    \A k \in 1..Len(fmResults) :
        /\ fmResults[k] = fmResults[1]
        /\ IF ApplicableIn = {} THEN fmResults[k] = Null
           ELSE \E i \in ApplicableIn :
                  /\ fmResults[k] = Some(fmRules[i])
                  /\ \A j \in ApplicableIn :
                       /\ fmRules[j].priority <= fmRules[i].priority
                       /\ fmRules[j].priority = fmRules[i].priority => i <= j

\* Two calls were made on a list that starts with a disabled matching rule
\* of priority 20, followed by two different enabled matching rules of
\* priority 50: both calls returned the first of the two.
C3_Witness ==
    /\ fmUrl = UrlOther
    /\ fmRules = <<getDefaultTransformationRules[3], RuleCustom2, RuleCustom1>>
    /\ RuleCustom1 # RuleCustom2
    /\ Len(fmResults) = 2
    /\ fmResults[2] = Some(RuleCustom2)

(***************************************************************************)
(* The parser (MetadataLinkParser) and the operations of the plugin that   *)
(* run on it.  A document is what the parser reads of it: whether it has a *)
(* frontmatter, the URL, marker and proxy fields of the frontmatter, the   *)
(* lines of the body that hold a URL, the length of the trimmed body and   *)
(* the number of article sections in it.  Fetched markdown is its length.  *)
(***************************************************************************)
\* "Articles"
FolderArticles ==
    <<"A", "r", "t", "i", "c", "l", "e", "s">>

\* "Articles/a.md"
PathNote ==
    <<"A", "r", "t", "i", "c", "l", "e", "s", "/", "a", ".", "m", "d">>

\* "Inbox/links.md"
PathLinks ==
    <<"I", "n", "b", "o", "x", "/", "l", "i", "n", "k", "s", ".", "m", "d">>

Doc(frontmatter, url, article_processed, lines, bodyLength) ==
    [frontmatter |-> frontmatter, url |-> url,
     article_processed |-> article_processed, proxy |-> Null,
     lines |-> lines, bodyLength |-> bodyLength, articles |-> 0]

NoDoc == Doc(FALSE, Null, FALSE, << >>, 0)

\* "Articles/b.md"
PathNoteB ==
    <<"A", "r", "t", "i", "c", "l", "e", "s", "/", "b", ".", "m", "d">>

\* app.vault.getMarkdownFiles(), in the order the vault lists them
getMarkdownFiles ==
    LET InVault(path) == path \in DOMAIN vault
    IN  SelectSeq(<<PathNote, PathNoteB, PathLinks>>, InVault)

\* getMarkdownFiles().filter(file => file.path.startsWith(folderPath))
RECURSIVE FilesIn(_, _)
FilesIn(files, folderPath) ==
    IF files = << >> THEN << >>
    ELSE (IF StartsWith(Head(files), folderPath) THEN <<Head(files)>> ELSE << >>)
         \o FilesIn(Tail(files), folderPath)

\* line.match(/^https?:\/\//)
IsHttpLine(line) ==
    StartsWith(line, SchemeHttps \o Slashes) \/ StartsWith(line, SchemeHttp \o Slashes)

RECURSIVE HttpLines(_)
HttpLines(lines) ==
    IF lines = << >> THEN << >>
    ELSE (IF IsHttpLine(Head(lines)) THEN <<Head(lines)>> ELSE << >>)
         \o HttpLines(Tail(lines))

\* A mutant of isFileProcessed: the marker is never seen.
isFileProcessedNever(content) == FALSE

\* frontmatter?.article_processed === true
isFileProcessed(content) ==
    IF ~content.frontmatter THEN FALSE
    ELSE content.article_processed = TRUE

\* A mutant of markFileAsProcessed: the content is written back as read.
markFileAsProcessedUnmarked(content) == content

\* the content markFileAsProcessed writes, from the content it read
markFileAsProcessed(content) ==
    [content EXCEPT !.frontmatter = TRUE, !.article_processed = TRUE]

\* the url, link, source, web_url or article_url field of the frontmatter
extractUrlFromFrontmatter(content) ==
    IF ~content.frontmatter THEN Null ELSE content.url

\* the first URL in the text of the document
extractUrlFromContent(content) ==
    LET urls == HttpLines(content.lines)
    IN  IF urls = << >> THEN Null ELSE Some(urls[1])

\* the content updateFrontmatterWithProxyInfo writes, from the content it read
updateFrontmatterWithProxyInfo(content, originalUrl, proxiedUrl, proxyRule) ==
    [content EXCEPT !.frontmatter = TRUE,
                    !.proxy = Some([original_url |-> originalUrl,
                                    proxied_url |-> proxiedUrl,
                                    proxy_rule |-> proxyRule])]

\* '\n\n---\n\n## Retrieved Article Content\n\n'.length
SeparatorLength == 37

\* app.vault.append(file, separator + articleMarkdown), on the file as it is
appendArticle(content, articleLength) ==
    [content EXCEPT !.bodyLength = @ + SeparatorLength + articleLength,
                    !.articles = @ + 1]

getBodyContentLength(content) == content.bodyLength

\* A mutant of ratioReached: the threshold is exclusive.
ratioReachedStrictly(fetchedLength, existingBodyLength, minContentRatio) ==
    IF existingBodyLength > 0
    THEN fetchedLength > minContentRatio * existingBodyLength
    ELSE fetchedLength > minContentRatio

\* A mutant of ratioReached: any content is enough for an empty body.
ratioReachedOnEmptyBody(fetchedLength, existingBodyLength, minContentRatio) ==
    IF existingBodyLength > 0
    THEN fetchedLength >= minContentRatio * existingBodyLength
    ELSE fetchedLength > 0

\* ratio >= minContentRatio, where
\* ratio = existingBodyLength > 0 ? fetchedLength / existingBodyLength : fetchedLength
ratioReached(fetchedLength, existingBodyLength, minContentRatio) ==
    IF existingBodyLength > 0
    THEN fetchedLength >= minContentRatio * existingBodyLength
    ELSE fetchedLength >= minContentRatio

\* A mutant of the test (!transformResult.url): the caller never skips.
isUnavailableNever(transformResult) == FALSE

\* !transformResult.url
isUnavailable(transformResult) ==
    transformResult.url = Null \/ transformResult.url = Some(<< >>)

\* A mutant of newUrlTransformer: the transformer of a new parser starts with
\* the entry an earlier transformer wrote for the proxy of RuleCustom1.
newUrlTransformerKeepingCache ==
    [healthCache |-> (OriginOf(UrlOther, RuleCustom1)
                        :> [healthy |-> TRUE, lastChecked |-> 0]),
     pc |-> "idle", call |-> NoCall, inflight |-> << >>,
     requests |-> << >>, lastResponse |-> NoResponse, result |-> Null,
     testResults |-> EmptyMap]

\* new UrlTransformer(...), as a value
newUrlTransformer ==
    [healthCache |-> EmptyMap, pc |-> "idle", call |-> NoCall, inflight |-> << >>,
     requests |-> << >>, lastResponse |-> NoResponse, result |-> Null,
     testResults |-> EmptyMap]

NoTransformResult ==
    [url |-> Null, originalUrl |-> << >>, appliedRule |-> Null, error |-> Null]

\* An operation of the plugin on the parser it created: op is the operation,
\* fn the method that is handling file, pc the await it is suspended on, queue
\* the files the folder loop has still to visit, log what the current call of
\* fn did so far.
NewTask(op, fn, file, queue, checkProcessed, at) ==
    [op |-> op, fn |-> fn, pc |-> at, file |-> file, queue |-> queue,
     checkProcessed |-> checkProcessed, ut |-> newUrlTransformer,
     content |-> NoDoc, existingBodyLength |-> 0, url |-> << >>,
     urls |-> << >>, transformedUrls |-> << >>, skippedUrls |-> << >>,
     downProxies |-> {}, transformResult |-> NoTransformResult,
     articleMarkdown |-> Null, processed |-> 0, skipped |-> 0, log |-> << >>]

Last(seq) == seq[Len(seq)]

\* The log of a call starts afresh after the return of the previous call.
LogEvent(t, ev, arg) ==
    LET base == IF t.log # << >> /\ Last(t.log).ev = "return" THEN << >> ELSE t.log
    IN  [t EXCEPT !.log = Append(base, [ev |-> ev, file |-> t.file, arg |-> arg])]

\* What a step of task i works on: the vault, the count of scheduled appends
\* and the task itself.
World(i) == [vault |-> vault, autoAppends |-> autoAppends, t |-> tasks[i]]

SetWorld(i, w) ==
    /\ vault' = w.vault
    /\ autoAppends' = w.autoAppends
    /\ tasks' = [tasks EXCEPT ![i] = w.t]

\* The folder loops (autoProcessFolder, processFolderFilesAndAppend) go on to
\* the next file and suspend on its first read; an operation on one file is
\* over.
nextInLoop(w) ==
    IF w.t.queue = << >>
    THEN [w EXCEPT !.t.pc = "done", !.t.ut = newUrlTransformer]  \* parser dropped
    ELSE [w EXCEPT !.t.file = Head(w.t.queue),
                   !.t.queue = Tail(w.t.queue),
                   !.t.pc = IF w.t.op = "processFolderFilesAndAppend"
                            THEN "folderIsProcessed" ELSE "isProcessed"]

\* The method handling the file returns (autoProcessFileIfLonger returns
\* merged, the other methods return nothing) and its locals are gone.
endFile(w, merged) ==
    LET auto == w.t.fn = "autoProcessFileIfLonger"
        t1 == LogEvent(w.t, "return", IF auto THEN Some(merged) ELSE Null)
        t2 == [t1 EXCEPT !.content = NoDoc, !.existingBodyLength = 0,
                         !.url = << >>, !.urls = << >>,
                         !.transformedUrls = << >>, !.skippedUrls = << >>,
                         !.downProxies = {},
                         !.transformResult = NoTransformResult,
                         !.articleMarkdown = Null,
                         !.processed = IF auto /\ merged THEN @ + 1 ELSE @,
                         !.skipped = IF auto /\ ~merged THEN @ + 1 ELSE @]
    IN  nextInLoop([w EXCEPT !.t = t2])

\* pc = "folderIsProcessed": the loop of processFolderFilesAndAppend has read
\* the marker for its counts, and calls processFileAndAppend(file, true)
folderIsProcessed(w) ==
    LET wasProcessed == isFileProcessed(w.vault[w.t.file])
    IN  [w EXCEPT !.t.skipped = IF wasProcessed THEN @ + 1 ELSE @,
                  !.t.processed = IF wasProcessed THEN @ ELSE @ + 1,
                  !.t.fn = "processFileAndAppend",
                  !.t.checkProcessed = TRUE,
                  !.t.pc = "isProcessed"]

\* pc = "isProcessed": isFileProcessed(file) has read the file
afterIsProcessed(w) ==
    IF isFileProcessed(w.vault[w.t.file]) THEN endFile(w, FALSE)
    ELSE [w EXCEPT !.t.pc = "read"]

\* The caller awaits transformUrlIfNeeded: the transformer ut has returned
\* already, or is suspended on a request.
awaitTransform(w, t, ut) ==
    IF ut.pc = "returned"
    THEN [w EXCEPT !.t = [t EXCEPT !.ut = ut, !.pc = "transformed"]]
    ELSE [w EXCEPT !.t = LogEvent([t EXCEPT !.ut = ut, !.pc = "probe"], "probe",
                                  ut.inflight[1].url)]

\* transformUrlIfNeeded(url), up to the return of transformUrl or its first
\* request
beginTransform(w, url) ==
    awaitTransform(w, LogEvent([w.t EXCEPT !.url = url], "transform", url),
                   transformUrl(w.t.ut, url, config.rules))

\* the loop of processUrlBatch and what follows it: processContentBatch on
\* the URLs collected, if any
transformNext(w) ==
    IF w.t.urls # << >> THEN beginTransform(w, Head(w.t.urls))
    ELSE IF Len(w.t.transformedUrls) = 0 THEN endFile(w, FALSE)
    ELSE [w EXCEPT !.t = LogEvent([w.t EXCEPT !.pc = "fetch"], "fetch",
                                  w.t.transformedUrls)]

\* transformResult.appliedRule && !downProxies.has(transformResult.appliedRule)
firstFailureOf(t, tr) ==
    /\ tr.appliedRule # Null
    /\ tr.appliedRule[1] # << >>
    /\ tr.appliedRule[1] \notin t.downProxies

\* the skip of a URL whose proxy is down: the rule is remembered and the
\* notice "Proxy unavailable" shown when notify holds
skipUrl(t, tr, notify) ==
    LET t0 == IF notify THEN LogEvent(t, "notice", tr.appliedRule[1]) ELSE t
    IN  [t0 EXCEPT !.downProxies = IF notify THEN @ \cup {tr.appliedRule[1]} ELSE @,
                   !.skippedUrls = Append(@, t.url)]

\* A mutant of batchCollect: every skipped URL of a rule gets the notice.
batchCollectNotifyingEach(w) ==
    LET t  == w.t
        tr == t.transformResult
        t1 == IF isUnavailable(tr)
              THEN skipUrl(t, tr, tr.appliedRule # Null)
              ELSE [t EXCEPT !.transformedUrls = Append(@, tr.url)]
    IN  transformNext([w EXCEPT !.t = [t1 EXCEPT !.urls = Tail(@)]])

\* A mutant of batchCollect: the URLs collected are kept newest first.
batchCollectNewestFirst(w) ==
    LET t  == w.t
        tr == t.transformResult
        t1 == IF isUnavailable(tr)
              THEN skipUrl(t, tr, firstFailureOf(t, tr))
              ELSE [t EXCEPT !.transformedUrls = <<tr.url>> \o @]
    IN  transformNext([w EXCEPT !.t = [t1 EXCEPT !.urls = Tail(@)]])

\* the body of the loop of processUrlBatch after transformUrlIfNeeded; the
\* URLs collected are kept as the transformer returned them (Some(url))
batchCollect(w) ==
    LET t  == w.t
        tr == t.transformResult
        t1 == IF isUnavailable(tr)
              THEN skipUrl(t, tr, firstFailureOf(t, tr))
              ELSE [t EXCEPT !.transformedUrls = Append(@, tr.url)]
    IN  transformNext([w EXCEPT !.t = [t1 EXCEPT !.urls = Tail(@)]])

\* pc = "transformed": transformUrl has returned, transformUrlIfNeeded hands
\* its result to the caller, which skips the URL or passes it on to the
\* content delegate
afterTransform(w) ==
    LET r  == w.t.ut.result[1]
        tr == [url |-> r.transformedUrl, originalUrl |-> r.originalUrl,
               appliedRule |-> r.appliedRule, error |-> r.error]
        ut == [w.t.ut EXCEPT !.pc = "idle", !.call = NoCall, !.requests = << >>,
                             !.lastResponse = NoResponse, !.result = Null]
        t1 == [w.t EXCEPT !.ut = ut, !.transformResult = tr]
        t2 == IF tr.url = Null THEN LogEvent(t1, "null", tr.originalUrl) ELSE t1
        w2 == [w EXCEPT !.t = t2]
    IN  IF t2.fn = "processUrlBatch" THEN batchCollect(w2)
        ELSE IF isUnavailable(tr) THEN endFile(w2, FALSE)
        ELSE [w EXCEPT !.t = LogEvent([t2 EXCEPT !.pc = "fetch"], "fetch",
                                      <<tr.url>>)]

\* pc = "read": the method has read the file
afterRead(w) ==
    LET content == w.vault[w.t.file]
    IN  IF w.t.fn = "processUrlBatch"
        THEN LET urls == HttpLines(content.lines)
             IN  IF Len(urls) = 0 THEN endFile(w, FALSE)
                 ELSE transformNext([w EXCEPT !.t.urls = urls])
        ELSE LET inFrontmatter == extractUrlFromFrontmatter(content)
                 url == IF inFrontmatter # Null THEN inFrontmatter
                        ELSE extractUrlFromContent(content)
                 existing == IF w.t.fn = "autoProcessFileIfLonger"
                             THEN getBodyContentLength(content) ELSE 0
             IN  IF url = Null THEN endFile(w, FALSE)
                 ELSE beginTransform([w EXCEPT !.t.existingBodyLength = existing],
                                     url[1])

\* the transformer of the task is ut after its request has settled
afterRequest(w, ut) ==
    IF ut.pc = "returned" THEN [w EXCEPT !.t.ut = ut, !.t.pc = "transformed"]
    ELSE IF ut.pc = "rejected" THEN endFile([w EXCEPT !.t.ut = ut], FALSE)  \* catch
    ELSE [w EXCEPT !.t = LogEvent([w.t EXCEPT !.ut = ut], "probe",
                                  ut.inflight[1].url)]

\* the transformer without the record of how its request settled, which
\* the parser cannot see
Forget(ut) == [ut EXCEPT !.lastResponse = NoResponse]

\* pc = "probe": the request of the transformer has settled
afterProbe(w, response) ==
    afterRequest(w, Forget(requestSettles(w.t.ut, response)))

\* A mutant of afterFetch: a document the scheduled flow fetched for but did
\* not merge is marked as processed all the same.
afterFetchMarkingEvaluated(w, articleMarkdown) ==
    LET t  == w.t
        w1 == [w EXCEPT !.t = LogEvent(t, "fetched", articleMarkdown)]
        w2 == [w1 EXCEPT !.vault[t.file] = markFileAsProcessed(@)]
    IN  IF t.fn \in {"processFile", "processUrlBatch"} THEN endFile(w, FALSE)
        ELSE IF articleMarkdown = Null THEN endFile(w2, FALSE)
        ELSE IF articleMarkdown[1] = 0 THEN endFile(w2, FALSE)
        ELSE IF t.fn = "autoProcessFileIfLonger"
                /\ ~ratioReached(articleMarkdown[1], t.existingBodyLength,
                                 config.autoProcessing.minContentLengthRatio)
             THEN endFile(w2, FALSE)
        ELSE [w1 EXCEPT !.t.articleMarkdown = articleMarkdown,
                        !.t.pc = IF t.transformResult.appliedRule # Null
                                 THEN "proxyRead" ELSE "append"]

\* pc = "fetch": the content delegate has returned (processContent and
\* processContentBatch return nothing; getMarkdownContent returns markdown,
\* here its length, or null)
afterFetch(w, articleMarkdown) ==
    LET t  == w.t
        w1 == [w EXCEPT !.t = LogEvent(t, "fetched", articleMarkdown)]
    IN  IF t.fn \in {"processFile", "processUrlBatch"} THEN endFile(w, FALSE)
        ELSE IF articleMarkdown = Null THEN endFile(w1, FALSE)
        ELSE IF articleMarkdown[1] = 0 THEN endFile(w1, FALSE)
        ELSE IF t.fn = "autoProcessFileIfLonger"
                /\ ~ratioReached(articleMarkdown[1], t.existingBodyLength,
                                 config.autoProcessing.minContentLengthRatio)
             THEN endFile(w1, FALSE)
        ELSE [w1 EXCEPT !.t.articleMarkdown = articleMarkdown,
                        !.t.pc = IF t.transformResult.appliedRule # Null
                                 THEN "proxyRead" ELSE "append"]

\* pc = "proxyRead": updateFrontmatterWithProxyInfo has read the file
afterProxyRead(w) ==
    [w EXCEPT !.t.content = w.vault[w.t.file], !.t.pc = "proxyModify"]

\* pc = "proxyModify": app.vault.modify(file, newContent) is done
afterProxyModify(w) ==
    LET tr == w.t.transformResult
        newContent == updateFrontmatterWithProxyInfo(w.t.content, tr.originalUrl,
                                                     tr.url[1], tr.appliedRule[1])
    IN  [w EXCEPT !.vault[w.t.file] = newContent,
                  !.t = LogEvent([w.t EXCEPT !.content = NoDoc, !.pc = "append"],
                                 "write", "modify")]

\* A mutant of afterAppend: the flow goes on to the marker although nothing
\* was appended.
afterAppendMarkingOnly(w) ==
    LET t    == w.t
        auto == t.fn = "autoProcessFileIfLonger"
    IN  IF auto \/ t.checkProcessed THEN [w EXCEPT !.t.pc = "markRead"]
        ELSE endFile(w, TRUE)

\* pc = "append": app.vault.append rejects, and the catch of the method
\* handling the file ends the call (autoProcessFileIfLonger returns false)
appendRejected(w) ==
    endFile([w EXCEPT !.t = LogEvent(w.t, "threw", "append")], FALSE)

\* pc = "append": app.vault.append(file, separator + articleMarkdown) is done
afterAppend(w) ==
    LET t    == w.t
        auto == t.fn = "autoProcessFileIfLonger"
        w1   == [w EXCEPT !.vault[t.file] = appendArticle(@, t.articleMarkdown[1]),
                          !.autoAppends[t.file] = IF auto THEN @ + 1 ELSE @,
                          !.t = LogEvent(t, "write", "append")]
    IN  IF auto \/ t.checkProcessed THEN [w1 EXCEPT !.t.pc = "markRead"]
        ELSE endFile(w1, TRUE)

\* pc = "markRead": markFileAsProcessed has read the file
afterMarkRead(w) ==
    LET content == w.vault[w.t.file]
    IN  IF content.frontmatter /\ content.article_processed = TRUE
        THEN endFile(w, TRUE)
        ELSE [w EXCEPT !.t.content = content, !.t.pc = "markModify"]

\* pc = "markModify": app.vault.modify(file, newContent) is done
afterMarkModify(w) ==
    endFile([w EXCEPT !.vault[w.t.file] = markFileAsProcessed(w.t.content),
                      !.t = LogEvent(w.t, "write", "modify")], TRUE)

(***************************************************************************)
(* Actions of the plugin: the commands and the timer start operations,     *)
(* each on a parser of its own (createParser), and the awaited reads,      *)
(* writes, requests and fetches of the operations complete in any order.   *)
(***************************************************************************)

\* At most MaxStarts operations are started, and at most two of them overlap;
\* what is left of an operation that is over goes when the next one starts.
MaxStarts == 2
Slots == {1, 2}

\* autoProcessing.minContentLengthRatio, by default
DefaultMinContentLengthRatio == 2

\* what getMarkdownContent may return: null, or markdown of these lengths
FetchOutcomes == {Null, Some(1), Some(199), Some(200)}

\* A note with its URL in the frontmatter, new or already processed, and a
\* list of links without frontmatter.
Notes ==
    { Doc(TRUE, Some(UrlOther), FALSE, << >>, 0),
      Doc(TRUE, Some(UrlOther), FALSE, << >>, 100),
      Doc(TRUE, Some(UrlOther), TRUE, << >>, 100) }

Links ==
    Doc(FALSE, Null, FALSE, <<UrlMalformed, UrlMedium, UrlOther>>,
        Len(UrlMalformed) + 1 + Len(UrlMedium) + 1 + Len(UrlOther))

Vaults == {[f \in {PathNote, PathLinks} |-> IF f = PathNote THEN note ELSE Links] :
             note \in Notes}

\* The configuration as loadConfig leaves it for a user with one rule of
\* their own: the built-in rules, all disabled, follow it.
Configs ==
    [rules : {<<RuleCustom1>> \o getDefaultTransformationRules},
     autoProcessing : {[enabled |-> TRUE, folderPath |-> FolderArticles,
                        minContentLengthRatio |-> DefaultMinContentLengthRatio]}]

\* no operation is running
NoTask == NewTask("none", "none", << >>, << >>, FALSE, "done")

\* An operation starts while fewer than two are running.
Start(t) ==
    /\ started < MaxStarts
    /\ \E i \in Slots :
         /\ tasks[i].pc = "done"
         /\ \A j \in Slots : tasks[j].pc = "done" => i <= j
         /\ tasks' = [j \in Slots |-> IF j = i THEN t
                                      ELSE IF tasks[j].pc = "done" THEN NoTask
                                      ELSE tasks[j]]
    /\ started' = started + 1
    /\ UNCHANGED <<vault, config, autoAppends, tvars, fvars, lvars, uvars, cvars, nvars>>

\* a folder operation, suspended on the first read of its first file
LoopTask(op, fn, folderPath) ==
    nextInLoop([vault |-> vault, autoAppends |-> autoAppends,
                t |-> NewTask(op, fn, << >>,
                              FilesIn(getMarkdownFiles, folderPath), FALSE,
                              "done")]).t

ProcessFile ==
    \E file \in DOMAIN vault :
        Start(NewTask("processFile", "processFile", file, << >>, FALSE, "read"))

ProcessFileAndAppend ==
    \E file \in DOMAIN vault :
        Start(NewTask("processFileAndAppend", "processFileAndAppend", file,
                      << >>, FALSE, "read"))

ProcessFolderFilesAndAppend ==
    /\ started < MaxStarts
    /\ Start(LoopTask("processFolderFilesAndAppend", "processFileAndAppend",
                      FolderArticles))

ProcessUrlBatch ==
    \E file \in DOMAIN vault :
        Start(NewTask("processUrlBatch", "processUrlBatch", file, << >>, FALSE,
                      "read"))

\* The interval timer fires: the callback calls runAutoProcessing, whatever
\* earlier runs are doing.
RunAutoProcessing ==
    /\ config.autoProcessing.enabled
    /\ config.autoProcessing.folderPath # << >>
    /\ Start(LoopTask("autoProcessFolder", "autoProcessFileIfLonger",
                      config.autoProcessing.folderPath))

VaultPcs ==
    {"folderIsProcessed", "isProcessed", "read", "proxyRead", "proxyModify",
     "append", "markRead", "markModify"}

\* The read, modify or append an operation awaits is done.
VaultResponds ==
    \E i \in Slots :
        /\ tasks[i].pc \in VaultPcs
        /\ LET w == World(i)
               at == tasks[i].pc
           IN  SetWorld(i, CASE at = "folderIsProcessed" -> folderIsProcessed(w)
                             [] at = "isProcessed" -> afterIsProcessed(w)
                             [] at = "read" -> afterRead(w)
                             [] at = "proxyRead" -> afterProxyRead(w)
                             [] at = "proxyModify" -> afterProxyModify(w)
                             [] at = "append" -> afterAppend(w)
                             [] at = "markRead" -> afterMarkRead(w)
                             [] at = "markModify" -> afterMarkModify(w))
        /\ UNCHANGED <<config, started, tvars, fvars, lvars, uvars, cvars, nvars>>

\* The HEAD request an operation's transformer awaits settles.
ParserProbeResponds ==
    \E i \in Slots :
        /\ tasks[i].pc = "probe"
        /\ \E response \in Responses : SetWorld(i, afterProbe(World(i), response))
        /\ UNCHANGED <<config, started, tvars, fvars, lvars, uvars, cvars, nvars>>

\* The call of transformUrlIfNeeded an operation awaits has returned.
TransformReturns ==
    \E i \in Slots :
        /\ tasks[i].pc = "transformed"
        /\ SetWorld(i, afterTransform(World(i)))
        /\ UNCHANGED <<config, started, tvars, fvars, lvars, uvars, cvars, nvars>>

\* The append an operation awaits fails.
AppendRejects ==
    \E i \in Slots :
        /\ tasks[i].pc = "append"
        /\ SetWorld(i, appendRejected(World(i)))
        /\ UNCHANGED <<config, started, tvars, fvars, lvars, uvars, cvars, nvars>>

\* The content delegate returns.
DelegateResponds ==
    \E i \in Slots :
        /\ tasks[i].pc = "fetch"
        /\ \E articleMarkdown \in FetchOutcomes :
             SetWorld(i, afterFetch(World(i), articleMarkdown))
        /\ UNCHANGED <<config, started, tvars, fvars, lvars, uvars, cvars, nvars>>

ParserInit ==
    /\ vault \in Vaults
    /\ config \in Configs
    /\ tasks = [i \in Slots |-> NoTask]
    /\ started = 0
    /\ autoAppends = [f \in DOMAIN vault |-> 0]
    /\ NewTransformer
    /\ NoFinder
    /\ NoPlugin
    /\ NoFunctions
    /\ NoConfigManager
    /\ NoNoteService

ParserNext ==
    \/ ProcessFile
    \/ ProcessFileAndAppend
    \/ ProcessFolderFilesAndAppend
    \/ ProcessUrlBatch
    \/ RunAutoProcessing
    \/ VaultResponds
    \/ ParserProbeResponds
    \/ TransformReturns
    \/ DelegateResponds

SpecParser == ParserInit /\ [][ParserNext]_vars

\* C9 (as claimed): the scheduled flow appends fetched content to a document
\* at most once, whatever the order and overlap of the scheduled runs.
C9_AutoAppendsAtMostOnce ==
    \A f \in DOMAIN autoAppends : autoAppends[f] <= 1

(***************************************************************************)
(* Properties of the parser.                                               *)
(***************************************************************************)

\* the positions of the events ev in the log of the call task i is in
EventsOf(i, ev) == {k \in 1..Len(tasks[i].log) : tasks[i].log[k].ev = ev}

\* url, as it is or as some rule of the configuration transforms it
FormsOf(url) ==
    {url} \cup {applyTransformation(url, config.rules[j]) :
                  j \in 1..Len(config.rules)}

\* C8: in processFile, processFileAndAppend, autoProcessFileIfLonger and
\* processUrlBatch, a URL for which transformUrl returned transformedUrl = null
\* is not fetched: the call passes neither that URL nor a transformed form of
\* it to the content delegate (a call on one URL passes nothing at all), and
\* it does not write the document.
C8_NullResultIsNotFetched ==
    \A i \in Slots :
        LET log == tasks[i].log
        IN  \A k \in EventsOf(i, "null") :
                /\ EventsOf(i, "write") = {}
                /\ \A m \in EventsOf(i, "fetch") :
                       /\ tasks[i].fn = "processUrlBatch"
                       /\ \A n \in 1..Len(log[m].arg) :
                              /\ log[m].arg[n] # Null
                              /\ log[m].arg[n][1] \notin FormsOf(log[k].arg)

\* A batch is over that skipped the URL of the proxy that was down and handed
\* the other URL to the delegate, next to a scheduled run that is over and
\* skipped its file for the same reason.
C8_Witness ==
    \E i, j \in Slots :
        /\ tasks[i].fn = "processUrlBatch"
        /\ tasks[i].pc = "done"
        /\ \E k \in EventsOf(i, "null") : tasks[i].log[k].arg = UrlOther
        /\ \E m \in EventsOf(i, "fetch") : tasks[i].log[m].arg = <<Some(UrlMedium)>>
        /\ tasks[j].fn = "autoProcessFileIfLonger"
        /\ tasks[j].pc = "done"
        /\ EventsOf(j, "null") # {}
        /\ Last(tasks[j].log).arg = Some(FALSE)

C11_ProcessedIsTerminal ==
    [][\A f \in DOMAIN vault :
         isFileProcessed(vault[f]) => isFileProcessed(vault'[f])]_vars

\* the step of task i in which getMarkdownContent returns to
\* autoProcessFileIfLonger
FetchReturnsToAuto(i) ==
    /\ tasks[i].fn = "autoProcessFileIfLonger"
    /\ tasks[i].pc = "fetch"
    /\ tasks'[i] # tasks[i]

\* what getMarkdownContent returned in the call whose log is log
FetchedIn(log) ==
    LET at == {k \in 1..Len(log) : log[k].ev = "fetched"}
    IN  IF at = {} THEN Null ELSE log[CHOOSE k \in at : \A m \in at : m <= k].arg

\* the call goes on to write the document (the frontmatter rewrite or the
\* append comes next) instead of returning false
Merges(t) == t.pc \in {"proxyRead", "append"}

\* C12: for an unprocessed document with a body of length > 0, the scheduled
\* flow merges exactly when fetchedLength / existingBodyLength >= minRatio,
\* the threshold included: with a body of 100 and ratio 2, 199 fetched
\* characters do not merge and 200 do.  (For lengths of strings the quotient
\* of the doubles is >= the ratio exactly when fetched >= ratio * existing.)
C12_RatioThresholdIsInclusive ==
    [][\A i \in Slots :
         (FetchReturnsToAuto(i) /\ tasks[i].existingBodyLength > 0)
         => LET fetched  == FetchedIn(tasks'[i].log)
                existing == tasks[i].existingBodyLength
                minRatio == config.autoProcessing.minContentLengthRatio
            IN  /\ fetched # Null
                   => (Merges(tasks'[i]) <=> fetched[1] >= minRatio * existing)
                /\ (existing = 100 /\ minRatio = 2 /\ fetched = Some(199))
                   => ~Merges(tasks'[i])
                /\ (existing = 100 /\ minRatio = 2 /\ fetched = Some(200))
                   => Merges(tasks'[i])]_vars

\* Of two scheduled runs on the note with a body of 100, one fetched 200
\* characters and goes on to write, the other fetched 199 and returned false.
C12_Witness ==
    \E i, j \in Slots :
        /\ tasks[i].fn = "autoProcessFileIfLonger"
        /\ tasks[i].existingBodyLength = 100
        /\ FetchedIn(tasks[i].log) = Some(200)
        /\ Merges(tasks[i])
        /\ tasks[j].fn = "autoProcessFileIfLonger"
        /\ tasks[j].pc = "done"
        /\ FetchedIn(tasks[j].log) = Some(199)
        /\ Last(tasks[j].log).arg = Some(FALSE)
        /\ vault[PathNote].bodyLength = 100

ScheduledRunsInFlight ==
    {i \in Slots : tasks[i].op = "autoProcessFolder" /\ tasks[i].pc # "done"}

\* C14 (as claimed): at most one scheduled run is in flight at any time; a
\* tick of the timer during a scan that is still executing does not start a
\* second scan.
C14_OneScheduledRunInFlight ==
    Cardinality(ScheduledRunsInFlight) <= 1

(***************************************************************************)
(* The life cycle of the plugin in its host.  Enabling the plugin makes a  *)
(* new instance and calls onload, which suspends on loadConfig; disabling  *)
(* it calls onunload and clears the intervals the instance had registered. *)
(* The handlers of the settings tab suspend on saveConfig before they      *)
(* restart the timer.  The host state is h = [plugins, timers].            *)
(***************************************************************************)
MaxLoads == 2
MaxChanges == 2
MaxTicks == 2

\* getDefaultAutoProcessingConfig(): frequencyMinutes
DefaultFrequencyMinutes == 60

\* the least value of the frequency slider
MinFrequencyMinutes == 5

\* getDefaultAutoProcessingConfig(), without the ratio
DefaultAutoProcessingConfig ==
    [enabled |-> FALSE, folderPath |-> << >>,
     frequencyMinutes |-> DefaultFrequencyMinutes]

\* what loadConfig may return for autoProcessing: the defaults, or what the
\* configuration file holds
LoadedAutoProcessingConfigs ==
    {DefaultAutoProcessingConfig}
    \cup [enabled : BOOLEAN, folderPath : {<< >>, FolderArticles},
          frequencyMinutes : {DefaultFrequencyMinutes}]

\* new MetadataLinkParserPlugin(), with onload called and suspended on
\* loadConfig
NewPlugin ==
    [onload |-> "loadConfig", unloaded |-> FALSE, config |-> Null,
     autoProcessingIntervalId |-> Null, intervals |-> {}, saving |-> 0]

Host == [plugins |-> plugins, timers |-> timers]

SetHost(h) ==
    /\ plugins' = h.plugins
    /\ timers' = h.timers

\* startAutoProcessing() of instance k: window.setInterval and
\* registerInterval
startAutoProcessing(h, k) ==
    LET autoProcessing == h.plugins[k].config[1]
        id == Len(h.timers) + 1
    IN  IF ~autoProcessing.enabled \/ autoProcessing.folderPath = << >> THEN h
        ELSE [h EXCEPT !.timers = Append(@, [owner |-> k, live |-> TRUE,
                                             period |-> autoProcessing.frequencyMinutes]),
                       !.plugins[k].autoProcessingIntervalId = Some(id),
                       !.plugins[k].intervals = @ \cup {id}]

\* stopAutoProcessing() of instance k
stopAutoProcessing(h, k) ==
    LET id == h.plugins[k].autoProcessingIntervalId
    IN  IF id # Null
        THEN [h EXCEPT !.timers[id[1]].live = FALSE,
                       !.plugins[k].autoProcessingIntervalId = Null]
        ELSE h

restartAutoProcessing(h, k) ==
    startAutoProcessing(stopAutoProcessing(h, k), k)

\* The host unloads instance k: onunload(), and the intervals registered
\* with the instance so far are cleared.
onunload(h, k) ==
    LET h1 == stopAutoProcessing(h, k)
    IN  [h1 EXCEPT !.timers = [id \in DOMAIN @ |->
                                 IF id \in h1.plugins[k].intervals
                                 THEN [@[id] EXCEPT !.live = FALSE] ELSE @[id]],
                   !.plugins[k].intervals = {},
                   !.plugins[k].unloaded = TRUE]

\* The user enables the plugin: the instance before, if any, was unloaded.
Onload ==
    /\ Len(plugins) < MaxLoads
    /\ plugins # << >> => Last(plugins).unloaded
    /\ plugins' = Append(plugins, NewPlugin)
    /\ UNCHANGED <<timers, scheduledRuns, changes, ticks, tvars, fvars, pvars, uvars, cvars, nvars>>

\* loadConfig returns to onload, which goes on to its end: the settings tab,
\* the commands and startAutoProcessing.
LoadConfigReturns ==
    \E k \in DOMAIN plugins :
        /\ plugins[k].onload = "loadConfig"
        /\ \E loaded \in LoadedAutoProcessingConfigs :
             SetHost(startAutoProcessing(
                       [Host EXCEPT !.plugins[k].config = Some(loaded),
                                    !.plugins[k].onload = "done"], k))
        /\ UNCHANGED <<scheduledRuns, changes, ticks, tvars, fvars, pvars, uvars, cvars, nvars>>

\* The user disables the plugin, or the host shuts down.
Onunload ==
    /\ plugins # << >>
    /\ ~Last(plugins).unloaded
    /\ SetHost(onunload(Host, Len(plugins)))
    /\ UNCHANGED <<scheduledRuns, changes, ticks, tvars, fvars, pvars, uvars, cvars, nvars>>

\* the settings tab of instance k is there to be used
SettingsOpen(k) ==
    /\ plugins[k].onload = "done"
    /\ ~plugins[k].unloaded
    /\ changes < MaxChanges

\* The toggle "Enable auto processing" changes: the handler sets the field
\* of the configuration and suspends on saveConfig.
ChangeEnabled ==
    \E k \in DOMAIN plugins, value \in BOOLEAN :
        /\ SettingsOpen(k)
        /\ plugins' = [plugins EXCEPT ![k].config[1].enabled = value,
                                      ![k].saving = @ + 1]
        /\ changes' = changes + 1
        /\ UNCHANGED <<timers, scheduledRuns, ticks, tvars, fvars, pvars, uvars, cvars, nvars>>

\* The slider "Check frequency (minutes)" changes.
ChangeFrequency ==
    \E k \in DOMAIN plugins,
       value \in {MinFrequencyMinutes, DefaultFrequencyMinutes} :
        /\ SettingsOpen(k)
        /\ plugins' = [plugins EXCEPT ![k].config[1].frequencyMinutes = value,
                                      ![k].saving = @ + 1]
        /\ changes' = changes + 1
        /\ UNCHANGED <<timers, scheduledRuns, ticks, tvars, fvars, pvars, uvars, cvars, nvars>>

\* The text "Watch folder" changes: its handler saves the configuration and
\* does nothing after that.
ChangeFolderPath ==
    \E k \in DOMAIN plugins, value \in {<< >>, FolderArticles} :
        /\ SettingsOpen(k)
        /\ plugins' = [plugins EXCEPT ![k].config[1].folderPath = value]
        /\ changes' = changes + 1
        /\ UNCHANGED <<timers, scheduledRuns, ticks, tvars, fvars, pvars, uvars, cvars, nvars>>

\* saveConfig returns to a handler of the toggle or of the slider, which
\* calls restartAutoProcessing; or it throws, and the handler is over.
SaveConfigReturns ==
    \E k \in DOMAIN plugins, saved \in BOOLEAN :
        /\ plugins[k].saving > 0
        /\ LET h == [Host EXCEPT !.plugins[k].saving = @ - 1]
           IN  SetHost(IF saved THEN restartAutoProcessing(h, k) ELSE h)
        /\ UNCHANGED <<scheduledRuns, changes, ticks, tvars, fvars, pvars, uvars, cvars, nvars>>

\* A live timer fires: its callback calls runAutoProcessing of the instance
\* that created it, which starts a scan if auto-processing is enabled and
\* has a folder.
TimerFires ==
    \E id \in DOMAIN timers :
        /\ timers[id].live
        /\ ticks < MaxTicks
        /\ ticks' = ticks + 1
        /\ LET k == timers[id].owner
               autoProcessing == plugins[k].config[1]
           IN  scheduledRuns' =
                 IF ~autoProcessing.enabled \/ autoProcessing.folderPath = << >>
                 THEN scheduledRuns
                 ELSE Append(scheduledRuns,
                             [timer |-> id, plugin |-> k,
                              unloaded |-> plugins[k].unloaded])
        /\ UNCHANGED <<plugins, timers, changes, tvars, fvars, pvars, uvars, cvars, nvars>>

LifecycleInit ==
    /\ plugins = << >>
    /\ timers = << >>
    /\ scheduledRuns = << >>
    /\ changes = 0
    /\ ticks = 0
    /\ NewTransformer
    /\ NoFinder
    /\ NoParser
    /\ NoFunctions
    /\ NoConfigManager
    /\ NoNoteService

LifecycleNext ==
    \/ Onload
    \/ LoadConfigReturns
    \/ Onunload
    \/ ChangeEnabled
    \/ ChangeFrequency
    \/ ChangeFolderPath
    \/ SaveConfigReturns
    \/ TimerFires

SpecLifecycle == LifecycleInit /\ [][LifecycleNext]_vars

(***************************************************************************)
(* Properties of the life cycle.                                           *)
(***************************************************************************)

\* C15 (as claimed): after onunload no new scheduled run starts, in every
\* order of the life-cycle events, unload during the loadConfig of onload
\* included.
C15_NoRunStartsAfterUnload ==
    \A n \in DOMAIN scheduledRuns : ~scheduledRuns[n].unloaded

\* the timers that were created and not cleared
LiveTimers == {id \in DOMAIN timers : timers[id].live}

\* C16 (as claimed): after any sequence of onload, restartAutoProcessing and
\* onunload there is never more than one live auto-processing timer; every
\* timer that was created and is not the one the handle of the plugin refers
\* to has been cleared.
C16_AtMostOneLiveTimer ==
    /\ Cardinality(LiveTimers) <= 1
    /\ \A id \in LiveTimers :
         Last(plugins).autoProcessingIntervalId = Some(id)

(***************************************************************************)
(* matchesPattern and applyTransformation on their own: each call takes    *)
(* its arguments from the sets below and is recorded with its value.       *)
(***************************************************************************)
\* "https://sub.x.com/a"
UrlSub ==
    <<"h", "t", "t", "p", "s", ":", "/", "/", "s", "u", "b", ".", "x", ".",
    "c", "o", "m", "/", "a">>

\* "https://evilx.com/a"
UrlEvil ==
    <<"h", "t", "t", "p", "s", ":", "/", "/", "e", "v", "i", "l", "x", ".",
    "c", "o", "m", "/", "a">>

\* "https://notx.com/a"
UrlNot ==
    <<"h", "t", "t", "p", "s", ":", "/", "/", "n", "o", "t", "x", ".", "c",
    "o", "m", "/", "a">>

\* "https://evilmedium.com/a"
UrlEvilMedium ==
    <<"h", "t", "t", "p", "s", ":", "/", "/", "e", "v", "i", "l", "m", "e",
    "d", "i", "u", "m", ".", "c", "o", "m", "/", "a">>

\* "https://x.com/a?b=$$1"
UrlDollars ==
    <<"h", "t", "t", "p", "s", ":", "/", "/", "x", ".", "c", "o", "m", "/",
    "a", "?", "b", "=", "$", "$", "1">>

\* "https://x.com/a?b=$&"
UrlDollarAmpersand ==
    <<"h", "t", "t", "p", "s", ":", "/", "/", "x", ".", "c", "o", "m", "/",
    "a", "?", "b", "=", "$", "&">>

\* "*.com"
PatStarCom ==
    <<"*", ".", "c", "o", "m">>

\* "https://p/{url}"
TemplateP ==
    <<"h", "t", "t", "p", "s", ":", "/", "/", "p", "/", "{", "u", "r", "l",
    "}">>

\* "https://p/{url}?u={url}"
TemplateTwice ==
    <<"h", "t", "t", "p", "s", ":", "/", "/", "p", "/", "{", "u", "r", "l",
    "}", "?", "u", "=", "{", "u", "r", "l", "}">>

\* "https://p/"
TemplateNoPlaceholder ==
    <<"h", "t", "t", "p", "s", ":", "/", "/", "p", "/">>

\* "p"
IdP ==
    <<"p">>

\* "P"
NameP ==
    <<"P">>

\* "https://x.com/a/b?c=1"
UrlPathQuery ==
    <<"h", "t", "t", "p", "s", ":", "/", "/", "x", ".", "c", "o", "m", "/",
    "a", "/", "b", "?", "c", "=", "1">>

\* "https://p/{domain}{path}"
TemplateDomainPath ==
    <<"h", "t", "t", "p", "s", ":", "/", "/", "p", "/", "{", "d", "o", "m",
    "a", "i", "n", "}", "{", "p", "a", "t", "h", "}">>

\* "https://p/"
ProxyP ==
    <<"h", "t", "t", "p", "s", ":", "/", "/", "p", "/">>

\* "https://p/x.com/a/b?c=1"
ExpectedDomainPath ==
    <<"h", "t", "t", "p", "s", ":", "/", "/", "p", "/", "x", ".", "c", "o",
    "m", "/", "a", "/", "b", "?", "c", "=", "1">>

\* "https://p/x.coma/b?c=1"
ClaimedDomainPath ==
    <<"h", "t", "t", "p", "s", ":", "/", "/", "p", "/", "x", ".", "c", "o",
    "m", "a", "/", "b", "?", "c", "=", "1">>

MaxApplications == 2

\* the URLs matched and transformed: hosts that are, are below, and merely
\* end in the domains of the patterns, text that is no URL, and URLs with a
\* dollar sign in the query
FnUrls ==
    {UrlOther, UrlSub, UrlEvil, UrlNot, UrlMedium, UrlEvilMedium, UrlMalformed,
     UrlDollars, UrlDollarAmpersand, UrlPathQuery}

FnPatterns == {PatStar, PatStarX, PatX, PatStarMedium, PatMedium, PatStarCom}

\* a user's prefix rule with the given template
PrefixRule(template) ==
    Rule(IdP, NameP, TRUE, <<PatStar>>, "prefix", template, 50)

\* a user's path-extraction rule with the given template
PathExtractionRule(template) ==
    Rule(IdP, NameP, TRUE, <<PatStar>>, "path-extraction", template, 50)

FnRules ==
    {PrefixRule(TemplateP), PrefixRule(TemplateTwice),
     PrefixRule(TemplateNoPlaceholder), RuleCustom1, RuleCustom2,
     PathExtractionRule(TemplateDomainPath)}

MatchesPattern ==
    /\ Len(fnCalls) < MaxApplications
    /\ \E url \in FnUrls, pattern \in FnPatterns :
         fnCalls' = Append(fnCalls, [fn |-> "matchesPattern", url |-> url,
                                     arg |-> pattern,
                                     value |-> matchesPattern(url, pattern)])
    /\ UNCHANGED <<tvars, fvars, pvars, lvars, cvars, nvars>>

ApplyTransformation ==
    /\ Len(fnCalls) < MaxApplications
    /\ \E url \in FnUrls, rule \in FnRules :
         fnCalls' = Append(fnCalls, [fn |-> "applyTransformation", url |-> url,
                                     arg |-> rule,
                                     value |-> applyTransformation(url, rule)])
    /\ UNCHANGED <<tvars, fvars, pvars, lvars, cvars, nvars>>

FunctionsInit ==
    /\ fnCalls = << >>
    /\ NewTransformer
    /\ NoFinder
    /\ NoParser
    /\ NoPlugin
    /\ NoConfigManager
    /\ NoNoteService

FunctionsNext ==
    \/ MatchesPattern
    \/ ApplyTransformation

SpecFunctions == FunctionsInit /\ [][FunctionsNext]_vars

(***************************************************************************)
(* Properties of the matcher and of the template expander.                 *)
(***************************************************************************)

\* the calls of fn made so far
CallsOf(fn) == {n \in DOMAIN fnCalls : fnCalls[n].fn = fn}

\* new URL(url).hostname
HostnameOf(url) == ParseUrl(url).hostname

\* C17: for a pattern *.x, a URL whose hostname is x itself or ends with
\* ".x" matches, and a URL whose hostname only ends with the letters of x,
\* with no dot before them, does not match.
C17_SubdomainNotSubstring ==
    \A n \in CallsOf("matchesPattern") :
        LET c == fnCalls[n]
            x == Substring(c.arg, 2)
            hostname == HostnameOf(c.url)
        IN  (StartsWith(c.arg, <<"*", ".">>) /\ ParseUrl(c.url).ok) =>
              /\ (hostname = x \/ EndsWith(hostname, <<".">> \o x))
                 => c.value = TRUE
              /\ ( /\ hostname # x
                   /\ EndsWith(hostname, x)
                   /\ ~EndsWith(hostname, <<".">> \o x) )
                 => c.value = FALSE

\* sub.x.com was found to match *.x.com and evilx.com was found not to.
C17_Witness ==
    /\ Len(fnCalls) = 2
    /\ fnCalls[1].fn = "matchesPattern"
    /\ fnCalls[2].fn = "matchesPattern"
    /\ fnCalls[1].url = UrlSub
    /\ fnCalls[1].arg = PatStarX
    /\ fnCalls[1].value = TRUE
    /\ fnCalls[2].url = UrlEvil
    /\ fnCalls[2].arg = PatStarX
    /\ fnCalls[2].value = FALSE

\* C18 (as claimed): matching any input string against the pattern * returns
\* true.
C18_StarMatchesEveryInput ==
    \A n \in CallsOf("matchesPattern") :
        fnCalls[n].arg = PatStar => fnCalls[n].value = TRUE

\* C18 (amended): the pattern * matches every input that parses as a URL;
\* for text that does not parse the match is false, as for any pattern.
C18_StarMatchesEveryParsedUrl ==
    \A n \in CallsOf("matchesPattern") :
        fnCalls[n].arg = PatStar
        => (fnCalls[n].value <=> ParseUrl(fnCalls[n].url).ok)

\* * was matched with a URL of a host no other pattern names, and with text
\* that is no URL.
C18_Witness ==
    /\ Len(fnCalls) = 2
    /\ fnCalls[1] = [fn |-> "matchesPattern", url |-> UrlNot, arg |-> PatStar,
                     value |-> TRUE]
    /\ fnCalls[2] = [fn |-> "matchesPattern", url |-> UrlMalformed,
                     arg |-> PatStar, value |-> FALSE]

\* template with its first {url} replaced by text, as it is
WithFirstUrlReplaced(template, text) ==
    LET i == IndexOf(template, PlaceholderUrl)
    IN  IF i = 0 THEN template
        ELSE SubSeq(template, 1, i - 1) \o text
             \o SubSeq(template, i + Len(PlaceholderUrl), Len(template))

\* C20 (as claimed): for a prefix rule, applyTransformation returns the
\* template with its first {url} replaced by the raw text of the URL,
\* unchanged, whatever the URL; later occurrences of {url} stay.
C20_PrefixInsertsRawUrl ==
    \A n \in CallsOf("applyTransformation") :
        LET c == fnCalls[n]
        IN  c.arg.transformationType = "prefix"
            => c.value = WithFirstUrlReplaced(c.arg.template, c.url)

\* C19: for text that does not parse as a URL, matching fails closed for
\* every pattern and every rule (false, nothing thrown), so transformUrl
\* returns the pass-through result with no rule applied, and requests nothing.
C19_MalformedFailsClosed ==
    /\ \A url \in Urls \cup FnUrls :
         ~ParseUrl(url).ok =>
           /\ \A pattern \in FnPatterns : matchesPattern(url, pattern) = FALSE
           /\ \A rule \in RulePool \cup FnRules : matchesRule(url, rule) = FALSE
    /\ (call.mode = "transformUrl" /\ ~ParseUrl(call.url).ok) =>
           /\ pc = "returned"
           /\ result = Some(PassThroughResult(call.url))
           /\ result[1].appliedRule = Null
           /\ requests = << >>
           /\ inflight = << >>

\* transformUrl has passed text without a scheme through rules of which one
\* is enabled and has the pattern *.
C19_Witness ==
    /\ ReturnedTransform
    /\ call.url = UrlMalformed
    /\ call.rules = <<RuleCustom1, RuleCustom2, RuleCustom3>>
    /\ RuleCustom3.enabled
    /\ RuleCustom3.matchers = <<PatStar>>
    /\ result = Some(PassThroughResult(UrlMalformed))

\* the calls of applyTransformation with the path-extraction rule of template
\* https://p/{domain}{path}
DomainPathCalls ==
    {n \in CallsOf("applyTransformation") :
       fnCalls[n].arg = PathExtractionRule(TemplateDomainPath)}

\* C21 (as claimed): template https://p/{domain}{path} applied to
\* https://x.com/a/b?c=1 yields https://p/x.coma/b?c=1.
C21_DomainPathAsClaimed ==
    \A n \in DomainPathCalls :
        fnCalls[n].url = UrlPathQuery => fnCalls[n].value = ClaimedDomainPath

\* C21 (amended): for a path-extraction rule {domain} and {path} are replaced
\* by the hostname and by pathname + search + hash, with no separator added
\* or removed; the pathname begins with a slash, so https://p/{domain}{path}
\* gives https://p/, the hostname and the slash of the path, and applied to
\* https://x.com/a/b?c=1 it yields https://p/x.com/a/b?c=1.
C21_DomainPathKeepsSlash ==
    \A n \in DomainPathCalls :
        LET c == fnCalls[n]
        IN  ParseUrl(c.url).ok =>
              /\ StartsWith(c.value, ProxyP \o HostnameOf(c.url) \o <<"/">>)
              /\ c.url = UrlPathQuery => c.value = ExpectedDomainPath
              /\ ~Includes(c.url, <<"$">>)
                 => c.value = ProxyP \o HostnameOf(c.url)
                              \o Substring(c.url, Len(SchemeHttps \o Slashes)
                                                  + Len(HostnameOf(c.url)))

\* the template was applied to https://x.com/a/b?c=1
C21_Witness ==
    \E n \in DomainPathCalls :
        /\ fnCalls[n].url = UrlPathQuery
        /\ fnCalls[n].value = ExpectedDomainPath

(***************************************************************************)
(* Properties of testAllProxies and of the probes of a cache miss.         *)
(***************************************************************************)

\* the first enabled rule of rules after position prev, or 0
NextEnabled(rules, prev) ==
    LET later == {j \in (prev + 1)..Len(rules) : rules[j].enabled}
    IN  IF later = {} THEN 0 ELSE CHOOSE j \in later : \A k \in later : j <= k

\* a step in which the loop of testAllProxies goes to its next rule: the call
\* starts, or the last probe of a rule settles
TestLoopStep ==
    /\ call'.mode = "testAllProxies"
    /\ \/ CallStep
       \/ Settles /\ call.mode = "testAllProxies" /\ pc' # "probeBase"

\* the health the settled request was given by checkProxyHealthWithTimeout
ProbedHealth(response) ==
    ~response.threw /\ response.status >= 200 /\ response.status < 400

\* C22: testAllProxies probes every enabled rule anew, in order, whatever the
\* cache holds: the entry of the rule's origin is deleted before the probe
\* and the test URL of the rule is requested, even when the entry was younger
\* than the time-to-live; disabled rules are passed over without a request;
\* and when the probes of a rule are done, the health they gave is recorded
\* under the rule's name and stored for its origin with the time of the
\* store.
C22_TestAllProbesAfresh ==
    [][ TestLoopStep =>
          LET rules == call'.rules
              prev == IF CallStep THEN 0 ELSE call.idx
              sofar == IF CallStep THEN << >> ELSE requests
              next == NextEnabled(rules, prev)
              tested == IF CallStep THEN EmptyMap
                        ELSE MapSet(testResults, call.rule[1].name,
                                    ProbedHealth(lastResponse'))
              stored == IF CallStep THEN healthCache
                        ELSE MapSet(healthCache, call.proxyBaseUrl,
                                    [healthy |-> ProbedHealth(lastResponse'),
                                     lastChecked |-> now])
          IN  /\ testResults' = tested
              /\ IF next = 0
                 THEN /\ pc' = "returned"
                      /\ requests' = sofar
                      /\ inflight' = << >>
                      /\ healthCache' = stored
                      /\ DOMAIN testResults' =
                           {rules[j].name : j \in {k \in 1..Len(rules) : rules[k].enabled}}
                 ELSE /\ pc' = "probeTest"
                      /\ call'.idx = next
                      /\ requests' = Append(sofar, applyTransformation(TEST_URL, rules[next]))
                      /\ OriginOf(TEST_URL, rules[next]) \notin DOMAIN healthCache'
                      /\ healthCache' = MapDelete(stored, OriginOf(TEST_URL, rules[next]))
        ]_vars

\* testAllProxies has returned after probing two rules of one origin one
\* after the other, the second while the entry the first had stored was
\* younger than the time-to-live, and a third rule.
C22_Witness ==
    /\ pc = "returned"
    /\ call.mode = "testAllProxies"
    /\ call.rules = <<RuleCustom1, RuleCustom2, RuleCustom3>>
    /\ OriginOf(TEST_URL, RuleCustom1) = OriginOf(TEST_URL, RuleCustom2)
    /\ DOMAIN testResults = {NameCustom1, NameCustom2, NameCustom3}
    /\ Len(requests) >= 3
    /\ Fresh(OriginOf(TEST_URL, RuleCustom2))

\* a step in which checkProxyHealth is entered with no entry of the origin
\* that is younger than the time-to-live, by transformUrl
MissStep ==
    /\ CallStep
    /\ call'.mode = "transformUrl"
    /\ call'.rule # Null
    /\ ~Fresh(call'.proxyBaseUrl)

\* C23: on a cache miss checkProxyHealth first requests the rule's template
\* expanded with the test URL; it requests the bare origin, once, exactly when
\* the first probe was not healthy; the health it stores and returns is that
\* of the last probe made, true iff that probe came back with a status in
\* [200, 400); so a miss makes one request when the first probe is healthy
\* and two otherwise.
C23_MissProbesTestUrlThenOrigin ==
    [][ /\ MissStep
           => ( /\ pc' = "probeTest"
                /\ requests' = <<applyTransformation(TEST_URL, call'.rule[1])>>
                /\ inflight' # << >>
                /\ inflight'[1].url = applyTransformation(TEST_URL, call'.rule[1]) )
        /\ (Settles /\ pc = "probeTest")
           => ( /\ pc' = "probeBase" <=> ~ProbedHealth(lastResponse')
                /\ pc' = "probeBase"
                   => ( /\ requests' = Append(requests, call.proxyBaseUrl)
                        /\ inflight'[1].url = call.proxyBaseUrl
                        /\ healthCache' = healthCache ) )
        /\ (Settles /\ pc = "probeBase") => pc' # "probeBase"
        /\ (Settles /\ pc' # "probeBase" /\ call.mode = "transformUrl")
           => ( /\ pc' = "returned"
                /\ result'[1].proxyHealthy = ProbedHealth(lastResponse')
                /\ result'[1].proxyHealthy
                     <=> ( /\ ~lastResponse'.threw
                           /\ lastResponse'.status >= 200
                           /\ lastResponse'.status < 400 )
                /\ healthCache' =
                     MapSet(healthCache, call.proxyBaseUrl,
                            [healthy |-> result'[1].proxyHealthy, lastChecked |-> now])
                /\ requests' = requests
                /\ IF pc = "probeTest"
                   THEN result'[1].proxyHealthy /\ Len(requests') = 1
                   ELSE /\ Len(requests') = 2
                        /\ requests'[1] = applyTransformation(TEST_URL, call.rule[1])
                        /\ requests'[2] = call.proxyBaseUrl )
        /\ (Settles /\ pc' # "probeBase" /\ call.mode = "testAllProxies")
           => testResults'[call.rule[1].name] = ProbedHealth(lastResponse')
      ]_vars

\* a check that missed the cache has returned healthy from its second
\* request, the one to the bare origin, answered with status 399
C23_Witness ==
    /\ ReturnedTransform
    /\ Len(requests) = 2
    /\ requests[2] = call.proxyBaseUrl
    /\ lastResponse.status = 399
    /\ result[1].proxyHealthy
    /\ healthCache[call.proxyBaseUrl].healthy

(***************************************************************************)
(* The configuration manager: loadConfig, mergeWithDefaults, saveConfig    *)
(* and toggleRule.  A parsed configuration file is a record whose fields   *)
(* are Null where the JSON has no value (absent or null) and Some(v)       *)
(* where it has the value v.                                               *)
(***************************************************************************)
MaxConfigLoads == 2
MaxConfigEdits == 2
DefaultTimeoutMs == 5000
DefaultCacheTtlMinutes == 5

getDefaultAutoProcessingConfig ==
    [enabled |-> FALSE, folderPath |-> << >>,
     frequencyMinutes |-> DefaultFrequencyMinutes,
     minContentLengthRatio |-> DefaultMinContentLengthRatio]

getDefaultConfig ==
    [rules |-> getDefaultTransformationRules,
     proxyHealthCacheTtlMinutes |-> DefaultCacheTtlMinutes,
     proxyHealthTimeoutMs |-> DefaultTimeoutMs,
     autoProcessing |-> getDefaultAutoProcessingConfig]

\* A mutant of NullishCoalesce: a value that is false, 0 or the empty string
\* gives way to the default as well (the operator || in place of ??).
NullishCoalesceOrFalsy(value, default) ==
    IF value = Null \/ ToString(value[1]) \in {ToString(0), ToString(FALSE), ToString(<< >>)}
    THEN default ELSE value[1]

\* value ?? default
NullishCoalesce(value, default) == IF value = Null THEN default ELSE value[1]

\* loadedConfig.autoProcessing?.field
OptionalField(autoProcessing, field) ==
    IF autoProcessing = Null THEN Null ELSE autoProcessing[1][field]

\* A mutant of mergeWithDefaults: the built-in rules come as built in, and of
\* the loaded rules only those of other ids are kept.
mergeWithDefaultsResetting(loadedConfig) ==
    IF loadedConfig.rules = Null THEN [threw |-> TRUE, value |-> Null]
    ELSE
    LET defaultRules == getDefaultTransformationRules
        NotBuiltIn(r) == \A d \in 1..Len(defaultRules) : defaultRules[d].id # r.id
        ap == loadedConfig.autoProcessing
        defaultAutoProcessing == getDefaultAutoProcessingConfig
        Field(field) == NullishCoalesce(OptionalField(ap, field),
                                        defaultAutoProcessing[field])
    IN  [threw |-> FALSE,
         value |-> Some(
           [rules |-> SelectSeq(loadedConfig.rules[1], NotBuiltIn) \o defaultRules,
            proxyHealthCacheTtlMinutes |->
                NullishCoalesce(loadedConfig.proxyHealthCacheTtlMinutes,
                                DefaultCacheTtlMinutes),
            proxyHealthTimeoutMs |->
                NullishCoalesce(loadedConfig.proxyHealthTimeoutMs, DefaultTimeoutMs),
            autoProcessing |->
              [enabled |-> Field("enabled"), folderPath |-> Field("folderPath"),
               frequencyMinutes |-> Field("frequencyMinutes"),
               minContentLengthRatio |-> Field("minContentLengthRatio")]])]

\* mergeWithDefaults: what it returns, or that it throws (rules.map on a
\* configuration that has no rules)
mergeWithDefaults(loadedConfig) ==
    IF loadedConfig.rules = Null THEN [threw |-> TRUE, value |-> Null]
    ELSE
    LET defaultRules == getDefaultTransformationRules
        loadedRuleIds == {loadedConfig.rules[1][i].id : i \in 1..Len(loadedConfig.rules[1])}
        NotLoaded(dr) == dr.id \notin loadedRuleIds
        newDefaultRules == SelectSeq(defaultRules, NotLoaded)
        defaultAutoProcessing == getDefaultAutoProcessingConfig
        ap == loadedConfig.autoProcessing
    IN  [threw |-> FALSE,
         value |-> Some(
           [rules |-> loadedConfig.rules[1] \o newDefaultRules,
            proxyHealthCacheTtlMinutes |->
                NullishCoalesce(loadedConfig.proxyHealthCacheTtlMinutes,
                                DefaultCacheTtlMinutes),
            proxyHealthTimeoutMs |->
                NullishCoalesce(loadedConfig.proxyHealthTimeoutMs, DefaultTimeoutMs),
            autoProcessing |->
              [enabled |-> NullishCoalesce(OptionalField(ap, "enabled"),
                                           defaultAutoProcessing.enabled),
               folderPath |-> NullishCoalesce(OptionalField(ap, "folderPath"),
                                              defaultAutoProcessing.folderPath),
               frequencyMinutes |->
                   NullishCoalesce(OptionalField(ap, "frequencyMinutes"),
                                   defaultAutoProcessing.frequencyMinutes),
               minContentLengthRatio |->
                   NullishCoalesce(OptionalField(ap, "minContentLengthRatio"),
                                   defaultAutoProcessing.minContentLengthRatio)]])]

\* JSON.stringify(config) as JSON.parse reads it back: every field has a value
StringifyConfig(c) ==
    [parses |-> TRUE,
     rules |-> Some(c.rules),
     proxyHealthCacheTtlMinutes |-> Some(c.proxyHealthCacheTtlMinutes),
     proxyHealthTimeoutMs |-> Some(c.proxyHealthTimeoutMs),
     autoProcessing |->
       Some([enabled |-> Some(c.autoProcessing.enabled),
             folderPath |-> Some(c.autoProcessing.folderPath),
             frequencyMinutes |-> Some(c.autoProcessing.frequencyMinutes),
             minContentLengthRatio |-> Some(c.autoProcessing.minContentLengthRatio)])]

\* The manager and its file as a value.
Manager == [file |-> configFile, config |-> managerConfig]

\* saveConfig: the file is written and this.config set, or the write throws
saveConfig(m, c, writeThrows) ==
    IF writeThrows THEN [threw |-> TRUE, manager |-> m]
    ELSE [threw |-> FALSE,
          manager |-> [file |-> Some(StringifyConfig(c)), config |-> Some(c)]]

\* loadConfig: the manager after it, and what it returned
loadConfig(m, readThrows, writeThrows) ==
    LET defaults == [manager |-> [m EXCEPT !.config = Some(getDefaultConfig)],
                     value |-> getDefaultConfig]               \* catch
    IN  IF m.file = Null
        THEN LET saved == saveConfig(m, getDefaultConfig, writeThrows)
             IN  IF saved.threw THEN defaults
                 ELSE [manager |-> saved.manager, value |-> getDefaultConfig]
        ELSE IF readThrows \/ ~m.file[1].parses THEN defaults
        ELSE LET merged == mergeWithDefaults(m.file[1])
             IN  IF merged.threw THEN defaults
                 ELSE [manager |-> [m EXCEPT !.config = merged.value],
                       value |-> merged.value[1]]

\* the first position of rules whose rule has the id, or 0 (findIndex)
RuleIndex(rules, ruleId) ==
    LET at == {i \in 1..Len(rules) : rules[i].id = ruleId}
    IN  IF at = {} THEN 0 ELSE CHOOSE i \in at : \A j \in at : i <= j

\* toggleRule, by way of updateRule and saveConfig
toggleRule(m, ruleId, enabled, writeThrows) ==
    LET c == m.config[1]
        ruleIndex == RuleIndex(c.rules, ruleId)
    IN  IF ruleIndex = 0 THEN m                                \* throws
        ELSE LET updated == [c EXCEPT !.rules[ruleIndex].enabled = enabled]
                 saved == saveConfig([m EXCEPT !.config = Some(updated)],
                                     updated, writeThrows)
             IN  saved.manager

\* The rules a configuration file may hold: none, the user's own, built-in
\* rules the user edited, and built-in rules in another order.
EditedFreedium ==
    [getDefaultTransformationRules[1] EXCEPT !.enabled = TRUE,
                                             !.template = TemplateCustom1,
                                             !.priority = 1]
Edited12ft == [getDefaultTransformationRules[2] EXCEPT !.enabled = TRUE]
PersistedRuleLists ==
    { Null, Some(<< >>), Some(<<RuleCustom1>>),
      Some(<<EditedFreedium, RuleCustom1>>),
      Some(<<getDefaultTransformationRules[3], RuleCustom1, Edited12ft>>),
      Some(<<getDefaultTransformationRules[3], getDefaultTransformationRules[2],
             getDefaultTransformationRules[1]>>) }

PersistedAutoProcessing ==
    { Null,
      Some([enabled |-> Null, folderPath |-> Null, frequencyMinutes |-> Null,
            minContentLengthRatio |-> Null]),
      Some([enabled |-> Some(TRUE), folderPath |-> Some(FolderArticles),
            frequencyMinutes |-> Some(MinFrequencyMinutes),
            minContentLengthRatio |-> Some(3)]),
      Some([enabled |-> Some(FALSE), folderPath |-> Some(<< >>),
            frequencyMinutes |-> Some(0), minContentLengthRatio |-> Some(0)]),
      Some([enabled |-> Null, folderPath |-> Some(FolderArticles),
            frequencyMinutes |-> Null, minContentLengthRatio |-> Some(3)]) }

\* What the file may hold when the plugin finds it: JSON of a configuration
\* with some of its fields, or text that is not JSON.
PersistedConfigs ==
    [parses : {TRUE}, rules : PersistedRuleLists,
     proxyHealthCacheTtlMinutes : {Null, Some(0)},
     proxyHealthTimeoutMs : {Null, Some(1000)},
     autoProcessing : PersistedAutoProcessing]
    \cup {[parses |-> FALSE, rules |-> Null, proxyHealthCacheTtlMinutes |-> Null,
           proxyHealthTimeoutMs |-> Null, autoProcessing |-> Null]}

SetManager(m) ==
    /\ configFile' = m.file
    /\ managerConfig' = m.config

\* An earlier session, or the user, left a configuration file.
PersistConfig ==
    /\ configFile = Null
    /\ configLoads = 0
    /\ \E c \in PersistedConfigs : configFile' = Some(c)
    /\ UNCHANGED <<managerConfig, loadReturn, configLoads, configCall, configEdits,
                   tvars, fvars, pvars, lvars, uvars, nvars>>

LoadConfig ==
    /\ configLoads < MaxConfigLoads
    /\ \E readThrows \in BOOLEAN, writeThrows \in BOOLEAN :
         LET r == loadConfig(Manager, readThrows, writeThrows)
         IN  /\ SetManager(r.manager)
             /\ loadReturn' = Some([file |-> configFile, readThrew |-> readThrows,
                                    value |-> r.value, after |-> configCall])
    /\ configLoads' = configLoads + 1
    /\ configCall' = Null
    /\ UNCHANGED <<configEdits, tvars, fvars, pvars, lvars, uvars, nvars>>

ToggleRule ==
    /\ managerConfig # Null
    /\ configEdits < MaxConfigEdits
    /\ configEdits' = configEdits + 1
    /\ \E ruleId \in {IdFreedium, IdCustom1, IdCustom2},
          enabled \in BOOLEAN, writeThrows \in BOOLEAN :
         /\ SetManager(toggleRule(Manager, ruleId, enabled, writeThrows))
         /\ configCall' =
              Some([fn |-> "toggleRule", ruleId |-> ruleId,
                    arg |-> [enabled |-> enabled], before |-> managerConfig[1],
                    found |-> RuleIndex(managerConfig[1].rules, ruleId) # 0,
                    saveThrew |-> /\ writeThrows
                                  /\ RuleIndex(managerConfig[1].rules, ruleId) # 0])
    /\ UNCHANGED <<loadReturn, configLoads, tvars, fvars, pvars, lvars, uvars, nvars>>

ConfigInit ==
    /\ NoConfigManager
    /\ NoNoteService
    /\ NewTransformer
    /\ NoFinder
    /\ NoParser
    /\ NoPlugin
    /\ NoFunctions

ConfigNext ==
    \/ PersistConfig
    \/ LoadConfig
    \/ ToggleRule

SpecConfig == ConfigInit /\ [][ConfigNext]_vars

\* the last loadConfig read a file that parsed and held a rule list
LoadedPersisted ==
    /\ loadReturn # Null
    /\ loadReturn[1].file # Null
    /\ ~loadReturn[1].readThrew
    /\ loadReturn[1].file[1].parses
    /\ loadReturn[1].file[1].rules # Null

\* the positions of rules that hold a rule of the id
PositionsOf(rules, id) == {i \in 1..Len(rules) : rules[i].id = id}

DefaultRuleIds ==
    {getDefaultTransformationRules[i].id : i \in 1..Len(getDefaultTransformationRules)}

\* C24: loadConfig of a persisted configuration returns the loaded rules as
\* they are (same rules, order and attributes), followed by exactly the
\* built-in rules whose id the loaded list does not have, in their built-in
\* order; a loaded rule with a built-in id stays as loaded and no built-in
\* rule of that id is added; and each scalar field is the loaded value where
\* there is one and the default where there is none (time-to-live 5 min,
\* timeout 5000 ms, ratio 2, frequency 60 min).
C24_LoadMergesDefaults ==
    LoadedPersisted =>
      LET loaded == loadReturn[1].file[1]
          rules == loaded.rules[1]
          value == loadReturn[1].value
          n == Len(rules)
          added == SubSeq(value.rules, n + 1, Len(value.rules))
          ap == loaded.autoProcessing
          Given(field) == ap # Null /\ ap[1][field] # Null
          Scalar(field, default) ==
              value.autoProcessing[field] =
                  IF Given(field) THEN ap[1][field][1] ELSE default
      IN  /\ Len(value.rules) >= n
          /\ SubSeq(value.rules, 1, n) = rules
          /\ \A i \in 1..Len(added) : \E d \in 1..Len(getDefaultTransformationRules) :
                                         added[i] = getDefaultTransformationRules[d]
          /\ {added[i].id : i \in 1..Len(added)}
               = DefaultRuleIds \ {rules[i].id : i \in 1..n}
          /\ \A i, j \in 1..Len(added) :
               i < j => RuleIndex(getDefaultTransformationRules, added[i].id)
                          < RuleIndex(getDefaultTransformationRules, added[j].id)
          /\ \A id \in DefaultRuleIds :
               PositionsOf(rules, id) # {}
                 => PositionsOf(value.rules, id) = PositionsOf(rules, id)
          /\ value.proxyHealthCacheTtlMinutes =
               IF loaded.proxyHealthCacheTtlMinutes = Null THEN 5
               ELSE loaded.proxyHealthCacheTtlMinutes[1]
          /\ value.proxyHealthTimeoutMs =
               IF loaded.proxyHealthTimeoutMs = Null THEN 5000
               ELSE loaded.proxyHealthTimeoutMs[1]
          /\ Scalar("enabled", FALSE)
          /\ Scalar("folderPath", << >>)
          /\ Scalar("frequencyMinutes", 60)
          /\ Scalar("minContentLengthRatio", 2)
          /\ managerConfig # Null

\* loadConfig has read a file with an edited built-in rule and no scalar
\* fields, and returned its rules followed by the two other built-in rules,
\* with the defaults for the scalar fields.
C24_Witness ==
    /\ LoadedPersisted
    /\ loadReturn[1].file[1].rules = Some(<<EditedFreedium, RuleCustom1>>)
    /\ loadReturn[1].file[1].proxyHealthCacheTtlMinutes = Null
    /\ loadReturn[1].file[1].autoProcessing = Null
    /\ loadReturn[1].value.rules =
         <<EditedFreedium, RuleCustom1, getDefaultTransformationRules[2],
           getDefaultTransformationRules[3]>>
    /\ loadReturn[1].value.autoProcessing.frequencyMinutes = 60

(***************************************************************************)
(* Properties of the marker after an append.                               *)
(***************************************************************************)

\* the call of task i that handled a file returns in this step, having
\* appended the fetched article to the file
ReturnsFromAppend(i) ==
    /\ tasks'[i].log # tasks[i].log
    /\ tasks'[i].log # << >>
    /\ Last(tasks'[i].log).ev = "return"
    /\ \E n \in 1..Len(tasks'[i].log) :
         tasks'[i].log[n].ev = "write" /\ tasks'[i].log[n].arg = "append"

MaxNoteCalls == 2

Whitespace == {" ", "\t", "\n", "\r"}

RECURSIVE TrimStart(_)
TrimStart(s) ==
    IF s # << >> /\ Head(s) \in Whitespace THEN TrimStart(Tail(s)) ELSE s

RECURSIVE TrimEnd(_)
TrimEnd(s) ==
    IF s # << >> /\ s[Len(s)] \in Whitespace
    THEN TrimEnd(SubSeq(s, 1, Len(s) - 1)) ELSE s

\* s.trim()
Trim(s) == TrimEnd(TrimStart(s))

\* s.split(c)
RECURSIVE Split(_, _)
Split(s, c) ==
    LET at == FirstOf(s, {c}, 1)
    IN  IF at > Len(s) THEN <<s>>
        ELSE <<SubSeq(s, 1, at - 1)>> \o Split(SubSeq(s, at + 1, Len(s)), c)

\* contentBatch.split("\n").filter(line => line.trim()), each item trimmed
BatchItems(contentBatch) ==
    LET NotBlank(line) == Trim(line) # << >>
        lines == SelectSeq(Split(contentBatch, "\n"), NotBlank)
    IN  [i \in 1..Len(lines) |-> Trim(lines[i])]

\* "todo"
TextTodo ==
    <<"t", "o", "d", "o">>

\* ".md"
ExtensionMd ==
    <<".", "m", "d">>

\* "Note-"
NotePrefix ==
    <<"N", "o", "t", "e", "-">>

\* "www."
WwwDot ==
    <<"w", "w", "w", ".">>

\* "article"
FilenameArticle ==
    <<"a", "r", "t", "i", "c", "l", "e">>

\* "https://www.x.com/a?b=2"
UrlWwwOther ==
    <<"h", "t", "t", "p", "s", ":", "/", "/", "w", "w", "w", ".", "x", ".",
    "c", "o", "m", "/", "a", "?", "b", "=", "2">>

\* the characters generateFilenameFromUrl keeps: [a-zA-Z0-9-_]
FilenameChars ==
    {"a", "b", "c", "d", "e", "f", "g", "h", "i", "j", "k", "l", "m", "n",
     "o", "p", "q", "r", "s", "t", "u", "v", "w", "x", "y", "z", "A", "B",
     "C", "D", "E", "F", "G", "H", "I", "J", "K", "L", "M", "N", "O", "P",
     "Q", "R", "S", "T", "U", "V", "W", "X", "Y", "Z", "0", "1", "2", "3",
     "4", "5", "6", "7", "8", "9", "-", "_"}

Digits == <<"0", "1", "2", "3", "4", "5", "6", "7", "8", "9">>

\* a stamp that differs from note to note (a timestamp)
Stamp(n) == <<Digits[((n \div 10) % 10) + 1], Digits[(n % 10) + 1]>>

\* F of the value of e, which is computed once
With(e, F(_)) == CHOOSE r \in {F(x) : x \in {e}} : TRUE

\* .replace(/-+/g, "-")
RECURSIVE CollapseDashes(_)
CollapseDashes(s) ==
    LET Collapsed(t) ==
            IF Len(t) < 2 THEN t
            ELSE IF t[1] = "-" /\ t[2] = "-" THEN CollapseDashes(Tail(t))
            ELSE <<t[1]>> \o CollapseDashes(Tail(t))
    IN  With(s, Collapsed)

MaxFilenameLength == 100

generateFilenameFromUrl(url, n) ==
    LET \* urlObj.hostname.replace(/^www\./, "") + urlObj.pathname
        HostAndPath(urlObj) ==
            ( IF StartsWith(urlObj.hostname, WwwDot)
              THEN Substring(urlObj.hostname, Len(WwwDot))
              ELSE urlObj.hostname ) \o urlObj.pathname
        \* .replace(/[^a-zA-Z0-9-_]/g, "-")
        Dashed(raw) ==
            [i \in 1..Len(raw) |-> IF raw[i] \in FilenameChars THEN raw[i] ELSE "-"]
        \* .replace(/^-|-$/g, "")
        Stripped(collapsed) ==
            LET first == IF collapsed # << >> /\ Head(collapsed) = "-"
                         THEN 2 ELSE 1
                last  == IF Len(collapsed) >= first /\ collapsed[Len(collapsed)] = "-"
                         THEN Len(collapsed) - 1 ELSE Len(collapsed)
            IN  SubSeq(collapsed, first, last)
        \* .substring(0, 100), and filename || "article"
        Cut(stripped) ==
            IF stripped = << >> THEN FilenameArticle
            ELSE IF Len(stripped) > MaxFilenameLength
            THEN SubSeq(stripped, 1, MaxFilenameLength)
            ELSE stripped
        Clean3(collapsed) == With(Stripped(collapsed), Cut)
        Clean2(dashed) == With(CollapseDashes(dashed), Clean3)
        Clean1(raw) == With(Dashed(raw), Clean2)
        Named(urlObj) ==
            IF ~urlObj.ok THEN FilenameArticle \o <<"-">> \o Stamp(n)  \* catch
            ELSE With(HostAndPath(urlObj), Clean1)
    IN  With(ParseUrl(url), Named)

\* app.vault.create(path, content): the note is added, or the call throws
\* because the path is taken
vaultCreate(created, path, content, by, item) ==
    IF \E i \in 1..Len(created) : created[i].path = path
    THEN [threw |-> TRUE, notes |-> created]
    ELSE [threw |-> FALSE,
          notes |-> Append(created, [path |-> path, content |-> content,
                                     by |-> by, item |-> item])]

\* fetchArticleContent: the article as markdown, or null
fetchArticleContent(ok, url) ==
    IF url \in ok THEN Some([kind |-> "article", of |-> url]) ELSE Null

\* NoteService.createNote: it throws nothing (catch)
basicCreateNote(ok, created, content) ==
    IF IsHttpLine(content)
    THEN LET fetched == fetchArticleContent(ok, content)         \* createNoteFromUrl
         IN  IF fetched = Null THEN created
             ELSE vaultCreate(created,
                              generateFilenameFromUrl(content, Len(created))
                                  \o ExtensionMd,
                              fetched[1], "NoteService", content).notes
    ELSE vaultCreate(created,                                     \* createNoteFromText
                     NotePrefix \o Stamp(Len(created)) \o ExtensionMd,
                     [kind |-> "text", of |-> content], "NoteService",
                     content).notes

\* NoteService.getMarkdownContent
basicGetMarkdownContent(ok, content) ==
    IF IsHttpLine(content) THEN fetchArticleContent(ok, content)
    ELSE Some([kind |-> "text", of |-> content])

\* What a call of the collaborator's createNote may do.
CreateOutcomes == {"created", "threw", "createdThenThrew"}

\* What a call of the collaborator's makeNote may do.
MakeNoteOutcomes == {"content", "noContent", "null", "threw"}

RilPrefix == <<"r", "i", "l", "-">>

\* the note the collaborator creates for an item
rilNote(created, item) ==
    Append(created, [path |-> RilPrefix \o Stamp(Len(created)) \o ExtensionMd,
                     content |-> [kind |-> "readItLater", of |-> item],
                     by |-> "ReadItLater", item |-> item])

\* readItLaterNoteService.createNote(content)
rilCreateNote(created, content, outcome) ==
    [threw |-> outcome # "created",
     notes |-> IF outcome = "threw" THEN created ELSE rilNote(created, content)]

\* readItLaterNoteService.createNotesFromBatch(contentBatch): it creates the
\* notes of the first items and then throws, or creates them all
RECURSIVE rilNotes(_, _, _)
rilNotes(created, items, done) ==
    IF done = 0 \/ items = << >> THEN created
    ELSE rilNotes(rilNote(created, Head(items)), Tail(items), done - 1)

rilCreateNotesFromBatch(created, contentBatch, outcome) ==
    [threw |-> outcome.threw,
     notes |-> rilNotes(created, BatchItems(contentBatch), outcome.done)]

BasicService == [kind |-> "NoteService", readItLaterNoteService |-> Null]

\* EnhancedNoteService.createNote
enhancedCreateNote(ok, service, created, content, outcome) ==
    LET ril == rilCreateNote(created, content, outcome)
    IN  IF service.readItLaterNoteService # Null /\ ~ril.threw THEN ril.notes
        ELSE basicCreateNote(ok,
                             IF service.readItLaterNoteService # Null
                             THEN ril.notes ELSE created,
                             content)

\* this.createNote(content), by the class of this
createNote(ok, service, created, content, outcome) ==
    IF service.kind = "EnhancedNoteService"
    THEN enhancedCreateNote(ok, service, created, content, outcome)
    ELSE basicCreateNote(ok, created, content)

\* NoteService.createNotesFromBatch: this.createNote for each item
RECURSIVE createEach(_, _, _, _, _)
createEach(ok, service, created, items, outcomes) ==
    IF items = << >> THEN created
    ELSE createEach(ok, service,
                    createNote(ok, service, created, Head(items), Head(outcomes)),
                    Tail(items), Tail(outcomes))

basicCreateNotesFromBatch(ok, service, created, contentBatch, outcomes) ==
    createEach(ok, service, created, BatchItems(contentBatch), outcomes)

\* EnhancedNoteService.createNotesFromBatch
enhancedCreateNotesFromBatch(ok, service, created, contentBatch, outcome, outcomes) ==
    LET ril == rilCreateNotesFromBatch(created, contentBatch, outcome)
    IN  IF service.readItLaterNoteService # Null /\ ~ril.threw THEN ril.notes
        ELSE basicCreateNotesFromBatch(ok, service,
                                       IF service.readItLaterNoteService # Null
                                       THEN ril.notes ELSE created,
                                       contentBatch, outcomes)

createNotesFromBatch(ok, service, created, contentBatch, outcome, outcomes) ==
    IF service.kind = "EnhancedNoteService"
    THEN enhancedCreateNotesFromBatch(ok, service, created, contentBatch,
                                      outcome, outcomes)
    ELSE basicCreateNotesFromBatch(ok, service, created, contentBatch, outcomes)

\* EnhancedNoteService.getMarkdownContent
enhancedGetMarkdownContent(ok, service, content, outcome) ==
    IF /\ service.readItLaterNoteService # Null
       /\ service.readItLaterNoteService[1].makeNote
       /\ outcome = "content"
    THEN Some([kind |-> "readItLater", of |-> content])
    ELSE basicGetMarkdownContent(ok, content)

getMarkdownContent(ok, service, content, outcome) ==
    IF service.kind = "EnhancedNoteService"
    THEN enhancedGetMarkdownContent(ok, service, content, outcome)
    ELSE basicGetMarkdownContent(ok, content)

\* getNoteService: installed is isReadItLaterInstalled(app); plugin is what
\* reading readItLaterPlugin.noteService gives
getNoteService(installed, plugin) ==
    IF installed /\ plugin.noteService = "present"
    THEN [kind |-> "EnhancedNoteService",
          readItLaterNoteService |-> Some([makeNote |-> plugin.makeNote])]
    ELSE BasicService

\* The inputs of the calls.
NoteContents == {UrlOther, UrlWwwOther, TextTodo}
Batches ==
    { UrlOther \o <<"\n">> \o UrlMedium,
      UrlOther \o <<"\n", " ", "\n", " ">> \o TextTodo \o <<" ">>,
      UrlOther \o <<"\n">> \o UrlWwwOther,
      <<" ", "\n">> }
Reachables == {{}, {UrlOther}, {UrlOther, UrlWwwOther, UrlMedium}}

GetNoteService ==
    /\ noteService = Null
    /\ \E installed \in BOOLEAN,
          plugin \in [noteService : {"absent", "present", "throws"},
                      makeNote : BOOLEAN] :
         noteService' = Some(getNoteService(installed, plugin))
    /\ UNCHANGED <<reachable, notes, lastNoteCall, noteCalls,
                   tvars, fvars, pvars, lvars, uvars, cvars>>

NoteCall ==
    /\ noteService # Null
    /\ noteCalls < MaxNoteCalls
    /\ noteCalls' = noteCalls + 1

CreateNote ==
    /\ NoteCall
    /\ \E content \in NoteContents, outcome \in CreateOutcomes :
         /\ notes' = createNote(reachable, noteService[1], notes, content, outcome)
         /\ lastNoteCall' =
              Some([fn |-> "createNote", content |-> content, before |-> notes,
                    failed |-> outcome # "created",
                    done |-> IF outcome = "createdThenThrew" THEN 1 ELSE 0,
                    value |-> Null])
    /\ UNCHANGED <<reachable, noteService, tvars, fvars, pvars, lvars, uvars, cvars>>

CreateNotesFromBatch ==
    /\ NoteCall
    /\ \E contentBatch \in Batches :
       \E outcome \in [done : 0..Len(BatchItems(contentBatch)), threw : BOOLEAN],
          outcomes \in [1..Len(BatchItems(contentBatch)) -> CreateOutcomes] :
         /\ outcome.threw \/ outcome.done = Len(BatchItems(contentBatch))
         /\ notes' = createNotesFromBatch(reachable, noteService[1], notes,
                                          contentBatch, outcome, outcomes)
         /\ lastNoteCall' =
              Some([fn |-> "createNotesFromBatch", content |-> contentBatch,
                    before |-> notes, failed |-> outcome.threw,
                    done |-> outcome.done, value |-> Null])
    /\ UNCHANGED <<reachable, noteService, tvars, fvars, pvars, lvars, uvars, cvars>>

GetMarkdownContent ==
    /\ NoteCall
    /\ \E content \in NoteContents, outcome \in MakeNoteOutcomes :
         /\ lastNoteCall' =
              Some([fn |-> "getMarkdownContent", content |-> content,
                    before |-> notes,
                    failed |-> \/ outcome # "content"
                               \/ noteService[1].readItLaterNoteService = Null
                               \/ ~noteService[1].readItLaterNoteService[1].makeNote,
                    done |-> 0,
                    value |-> getMarkdownContent(reachable, noteService[1],
                                                 content, outcome)])
    /\ UNCHANGED <<reachable, noteService, notes, tvars, fvars, pvars, lvars,
                   uvars, cvars>>

NotesInit ==
    /\ reachable \in Reachables
    /\ noteService = << >>
    /\ notes = << >>
    /\ lastNoteCall = << >>
    /\ noteCalls = 0
    /\ NewTransformer
    /\ NoFinder
    /\ NoParser
    /\ NoPlugin
    /\ NoFunctions
    /\ NoConfigManager

NotesNext ==
    \/ GetNoteService
    \/ CreateNote
    \/ CreateNotesFromBatch
    \/ GetMarkdownContent

SpecNotes == NotesInit /\ [][NotesNext]_vars

\* the notes the last call created
CreatedByLastCall ==
    SubSeq(notes, Len(lastNoteCall[1].before) + 1, Len(notes))

\* what the basic NoteService has after the last call's input
BasicNotesAfterLastCall ==
    LET c == lastNoteCall[1]
        items == BatchItems(c.content)
    IN  IF c.fn = "createNote"
        THEN basicCreateNote(reachable, c.before, c.content)
        ELSE IF c.fn = "createNotesFromBatch"
        THEN basicCreateNotesFromBatch(reachable, BasicService, c.before,
                                       c.content, [i \in 1..Len(items) |-> "threw"])
        ELSE c.before

\* C26: when the service is the delegating one and the collaborator's call
\* failed (it threw, or makeNote gave no content or is not there), the notes
\* in the vault and the value returned are those the basic NoteService gives
\* for the same input, and no item has two notes from the call.
C26_FallbackIsBasic ==
    ( /\ lastNoteCall # Null
      /\ noteService[1].kind = "EnhancedNoteService"
      /\ lastNoteCall[1].failed )
    => /\ notes = BasicNotesAfterLastCall
       /\ lastNoteCall[1].value =
            IF lastNoteCall[1].fn = "getMarkdownContent"
            THEN basicGetMarkdownContent(reachable, lastNoteCall[1].content)
            ELSE Null
       /\ \A i, j \in 1..Len(CreatedByLastCall) :
            CreatedByLastCall[i].item = CreatedByLastCall[j].item => i = j

(***************************************************************************)
(* Batches: a list of links with several URLs of one proxy, and a folder   *)
(* of two notes.                                                           *)
(***************************************************************************)
LinksOfOneProxy ==
    Doc(FALSE, Null, FALSE, <<UrlOther, UrlMedium, UrlMalformed, UrlPathQuery>>,
        Len(UrlOther) + 1 + Len(UrlMedium) + 1 + Len(UrlMalformed) + 1
          + Len(UrlPathQuery))

BatchVaults ==
    {[f \in {PathNote, PathNoteB, PathLinks} |->
        IF f = PathNote THEN Doc(TRUE, Some(UrlOther), FALSE, << >>, 100)
        ELSE IF f = PathNoteB THEN Doc(TRUE, Some(UrlPathQuery), FALSE, << >>, 0)
        ELSE LinksOfOneProxy]}

\* one rule of the user's for x.com, alone or with a universal rule of lower
\* priority on another proxy
BatchConfigs ==
    [rules : {<<RuleCustom1>> \o getDefaultTransformationRules,
              <<RuleCustom1, RuleCustom3>>},
     autoProcessing : {[enabled |-> TRUE, folderPath |-> FolderArticles,
                        minContentLengthRatio |-> DefaultMinContentLengthRatio]}]

BatchInit ==
    /\ vault \in BatchVaults
    /\ config \in BatchConfigs
    /\ tasks = [i \in Slots |-> NoTask]
    /\ started = 0
    /\ autoAppends = [f \in DOMAIN vault |-> 0]
    /\ NewTransformer
    /\ NoFinder
    /\ NoPlugin
    /\ NoFunctions
    /\ NoConfigManager
    /\ NoNoteService

\* no operation is in progress
NoneRunning == \A i \in Slots : tasks[i].pc = "done"

\* The batch operations, started one after the other: each has a parser and
\* a transformer of its own, so that what another operation does at the same
\* time reaches it through the vault only.
BatchNext ==
    \/ NoneRunning /\ ProcessUrlBatch
    \/ NoneRunning /\ ProcessFolderFilesAndAppend
    \/ NoneRunning /\ RunAutoProcessing
    \/ Advance
    \/ VaultResponds
    \/ AppendRejects
    \/ ParserProbeResponds
    \/ TransformReturns
    \/ DelegateResponds

SpecBatch == BatchInit /\ [][BatchNext]_vars

\* a step in which the transformer of task i is called for a URL
StartsTransform(i) ==
    /\ tasks'[i].ut.call # tasks[i].ut.call
    /\ tasks'[i].ut.call.mode = "transformUrl"

\* the transformer of task i holds, for origin, an entry younger than the
\* time-to-live that says the proxy is down
CachedDown(i, origin) ==
    /\ origin \in DOMAIN tasks[i].ut.healthCache
    /\ ~tasks[i].ut.healthCache[origin].healthy
    /\ now - tasks[i].ut.healthCache[origin].lastChecked < cacheTtlMs

\* the events of kind ev in a log
LogEvents(log, ev) == {n \in 1..Len(log) : log[n].ev = ev}

\* C27: within one batch operation (processUrlBatch, or a pass over a
\* folder) a proxy found down for one item is cached as down for its origin,
\* and a later item whose rule resolves to that origin, while the entry is
\* younger than the time-to-live, gets the proxy-down result at once, with no
\* request, and is skipped: nothing is fetched for it.
C27_DownProxyShortCircuits ==
    [][ \A i \in Slots :
          /\ ( /\ tasks[i].pc = "probe"
               /\ tasks'[i].ut.pc = "returned"
               /\ tasks'[i].ut.result[1].transformedUrl = Null )
             => tasks'[i].ut.healthCache[tasks[i].ut.call.proxyBaseUrl]
                  = [healthy |-> FALSE, lastChecked |-> now]
          /\ ( /\ StartsTransform(i)
               /\ tasks'[i].ut.call.rule # Null
               /\ CachedDown(i, tasks'[i].ut.call.proxyBaseUrl) )
             => ( /\ tasks'[i].pc = "transformed"
                  /\ tasks'[i].ut.pc = "returned"
                  /\ tasks'[i].ut.requests = << >>
                  /\ tasks'[i].ut.inflight = << >>
                  /\ tasks'[i].ut.result[1].transformedUrl = Null
                  /\ tasks'[i].ut.healthCache = tasks[i].ut.healthCache
                  /\ LogEvents(tasks'[i].log, "probe") \subseteq
                       LogEvents(tasks[i].log, "probe") )
          /\ ( /\ tasks[i].pc = "transformed"
               /\ tasks[i].ut.result[1].transformedUrl = Null
               /\ tasks'[i] # tasks[i] )
             => ( /\ \A n \in LogEvents(tasks'[i].log, "fetch") :
                       n \in LogEvents(tasks[i].log, "fetch")
                       \/ \A k \in 1..Len(tasks'[i].log[n].arg) :
                            tasks'[i].log[n].arg[k]
                              # Some(applyTransformation(tasks[i].ut.call.url,
                                                         tasks[i].ut.call.rule[1]))
                  /\ tasks[i].fn # "processUrlBatch"
                     => /\ Last(tasks'[i].log).ev = "return"
                        /\ LogEvents(tasks'[i].log, "fetch") = {} )
      ]_vars

\* processUrlBatch has the proxy-down result for its second URL of x.com
\* without a request, after the first was found down
C27_Witness ==
    \E i \in Slots :
        /\ tasks[i].fn = "processUrlBatch"
        /\ tasks[i].pc = "transformed"
        /\ tasks[i].ut.call.url = UrlPathQuery
        /\ tasks[i].ut.requests = << >>
        /\ tasks[i].ut.result[1].transformedUrl = Null
        /\ \E n \in LogEvents(tasks[i].log, "null") : tasks[i].log[n].arg = UrlOther
        /\ OriginOf(UrlOther, RuleCustom1) = OriginOf(UrlPathQuery, RuleCustom1)

\* the URL transformUrl gives for url when the proxy of its rule is healthy
Transformed(url) ==
    LET matchingRule == findMatchingRule(url, config.rules)
    IN  IF matchingRule = Null THEN url
        ELSE applyTransformation(url, matchingRule[1])

\* in a log of processUrlBatch, the URLs whose call of transformUrlIfNeeded
\* did not come back with null, in the order the calls were made; pending is
\* the URL of the call whose outcome the log read so far does not tell
RECURSIVE ResolvedTransforms(_, _)
ResolvedTransforms(log, pending) ==
    IF log = << >> THEN pending
    ELSE IF Head(log).ev = "transform"
         THEN pending \o ResolvedTransforms(Tail(log), <<Head(log).arg>>)
    ELSE IF Head(log).ev = "null"
         THEN ResolvedTransforms(Tail(log), << >>)
    ELSE ResolvedTransforms(Tail(log), pending)

\* the transformed URLs, wrapped as the delegate receives them
RECURSIVE HandedOver(_)
HandedOver(urls) ==
    IF urls = << >> THEN << >>
    ELSE <<Some(Transformed(Head(urls)))>> \o HandedOver(Tail(urls))

\* the URLs transformUrlIfNeeded was called with, in the order of the calls
RECURSIVE TransformCalls(_)
TransformCalls(log) ==
    IF log = << >> THEN << >>
    ELSE IF Head(log).ev = "transform"
         THEN <<Head(log).arg>> \o TransformCalls(Tail(log))
    ELSE TransformCalls(Tail(log))

\* C28: a batch operation works through its items one at a time and in
\* input order: a transformation starts only when the transformer has no
\* request in flight and the item before is done with; the folder passes
\* visit the files in the order of the listing; and processUrlBatch hands the
\* content delegate exactly the transformed URLs of the items whose
\* transformation did not give null, in the order of the lines of the file.
C28_BatchIsSequentialInOrder ==
    [][ \A i \in Slots :
          /\ Len(tasks'[i].ut.inflight) <= 1
          /\ StartsTransform(i)
             => ( /\ tasks[i].ut.inflight = << >>
                  /\ tasks[i].ut.pc \in {"idle", "returned"}
                  /\ tasks[i].pc \in {"read", "transformed"}
                  /\ tasks[i].pc = "transformed"
                     => ( /\ tasks[i].fn = "processUrlBatch"
                          /\ tasks[i].ut.call.url = Head(tasks[i].urls)
                          /\ tasks'[i].ut.call.url = Head(tasks'[i].urls)
                          /\ tasks'[i].urls = Tail(tasks[i].urls)
                          /\ Len(tasks'[i].transformedUrls) + Len(tasks'[i].skippedUrls)
                               = Len(tasks[i].transformedUrls)
                                 + Len(tasks[i].skippedUrls) + 1 ) )
          /\ ( /\ tasks'[i].pc \in {"isProcessed", "folderIsProcessed"}
               /\ tasks'[i].op \in {"autoProcessFolder", "processFolderFilesAndAppend"}
               /\ tasks'[i].file # tasks[i].file )
             => LET files == FilesIn(getMarkdownFiles, FolderArticles)
                IN  \E k \in 1..Len(files) :
                        SubSeq(files, k, Len(files))
                          = <<tasks'[i].file>> \o tasks'[i].queue
          /\ ( /\ tasks'[i].fn = "processUrlBatch"
               /\ tasks[i].pc # "fetch"
               /\ tasks'[i].pc = "fetch" )
             => /\ TransformCalls(tasks'[i].log)
                     = HttpLines(vault[tasks'[i].file].lines)
                /\ Last(tasks'[i].log).ev = "fetch"
                /\ tasks'[i].transformedUrls
                     = HandedOver(ResolvedTransforms(tasks'[i].log, << >>))
                /\ Last(tasks'[i].log).arg = tasks'[i].transformedUrls
      ]_vars

\* processUrlBatch hands over the first and the third URL of its file, in
\* that order, the second having been skipped for its proxy
C28_Witness ==
    \E i \in Slots :
        /\ tasks[i].fn = "processUrlBatch"
        /\ tasks[i].pc = "fetch"
        /\ tasks[i].transformedUrls
             = <<Some(applyTransformation(UrlOther, RuleCustom1)),
                 Some(applyTransformation(UrlPathQuery, RuleCustom1))>>
        /\ \E n \in LogEvents(tasks[i].log, "null") : tasks[i].log[n].arg = UrlMedium

\* the rules named by the proxy-unavailable notices of a log
NoticedRules(log) == {log[n].arg : n \in LogEvents(log, "notice")}

\* C29: within one call of processUrlBatch no rule is named by two
\* proxy-unavailable notices, however many URLs were skipped for it, and
\* while the call runs the rules named are the ones it remembers as down.
C29_OneNoticePerDownProxy ==
    \A i \in Slots :
        tasks[i].fn = "processUrlBatch"
        => LET log == tasks[i].log
           IN  /\ \A p, q \in LogEvents(log, "notice") :
                      log[p].arg = log[q].arg => p = q
               /\ tasks[i].pc # "done"
                  => NoticedRules(log) = tasks[i].downProxies
               /\ Cardinality(LogEvents(log, "notice"))
                    <= Cardinality(LogEvents(log, "null"))

\* processUrlBatch has skipped two URLs for the proxy of one rule and shown
\* one notice for it
C29_Witness ==
    \E i \in Slots :
        /\ tasks[i].fn = "processUrlBatch"
        /\ \E p, q \in LogEvents(tasks[i].log, "null") :
               /\ tasks[i].log[p].arg = UrlOther
               /\ tasks[i].log[q].arg = UrlPathQuery
        /\ tasks[i].skippedUrls = <<UrlOther, UrlPathQuery>>
        /\ NoticedRules(tasks[i].log) = {RuleCustom1.name}
        /\ Cardinality(LogEvents(tasks[i].log, "notice")) = 1

\* the step of task i in which autoProcessFileIfLonger, having fetched,
\* returns false: the delegate gave null or the ratio is below the threshold
ReturnsUnmerged(i) ==
    /\ FetchReturnsToAuto(i)
    /\ ~Merges(tasks'[i])

\* the call of autoProcessFileIfLonger whose log is log fetched for file and
\* returned false
FetchedUnmerged(log, file) ==
    /\ log # << >>
    /\ Last(log).ev = "return"
    /\ Last(log).arg = Some(FALSE)
    /\ Last(log).file = file
    /\ LogEvents(log, "fetched") # {}

\* C30: a call of autoProcessFileIfLonger that fetched and does not merge
\* has written nothing and writes nothing: every document of the vault,
\* marker included, is as it was before the return, and the call counts as
\* skipped; and a scheduled pass that comes to an unprocessed document goes
\* on to read it, and when its transformation gives a URL asks the content
\* delegate anew, holding nothing of an earlier fetch.
C30_UnmergedIsUntouchedAndRetried ==
    [][\A i \in Slots :
         /\ ReturnsUnmerged(i)
            => ( /\ vault' = vault
                 /\ autoAppends' = autoAppends
                 /\ LogEvents(tasks[i].log, "write") = {}
                 /\ isFileProcessed(vault'[tasks[i].file])
                      = isFileProcessed(vault[tasks[i].file])
                 /\ tasks'[i].skipped = tasks[i].skipped + 1
                 /\ tasks'[i].processed = tasks[i].processed )
         /\ ( /\ tasks[i].fn = "autoProcessFileIfLonger"
              /\ tasks[i].pc = "isProcessed"
              /\ tasks'[i].pc # "isProcessed"
              /\ ~isFileProcessed(vault[tasks[i].file]) )
            => ( /\ tasks'[i].pc = "read"
                 /\ tasks'[i].file = tasks[i].file )
         /\ ( /\ tasks[i].fn = "autoProcessFileIfLonger"
              /\ tasks[i].pc = "transformed"
              /\ tasks'[i].pc # "transformed"
              /\ tasks[i].ut.result[1].transformedUrl # Null )
            => ( /\ tasks'[i].pc = "fetch"
                 /\ tasks'[i].articleMarkdown = Null
                 /\ Last(tasks'[i].log).ev = "fetch"
                 /\ Last(tasks'[i].log).arg
                      = <<tasks[i].ut.result[1].transformedUrl>> )
      ]_vars

\* a scheduled pass fetched for the note and returned without merging; the
\* note is unprocessed as before, and the pass scheduled after it has come
\* to the note and waits for a fetch of its own
C30_Witness ==
    /\ started = 2
    /\ tasks[1].op = "autoProcessFolder"
    /\ tasks[1].pc = "done"
    /\ FetchedUnmerged(tasks[1].log, PathNote)
    /\ tasks[2].op = "autoProcessFolder"
    /\ tasks[2].file = PathNote
    /\ tasks[2].pc = "fetch"
    /\ Last(tasks[2].log).ev = "fetch"
    /\ ~isFileProcessed(vault[PathNote])
    /\ autoAppends[PathNote] = 0

(***************************************************************************)
(* The edits of the rule list: addRule, updateRule, deleteRule and         *)
(* reorderRules.  Each takes the object getConfig returns, this.config     *)
(* itself, changes its rules and then saves it.                            *)
(***************************************************************************)

\* { ...rule, ...updates }
SpreadRule(rule, updates) ==
    [f \in DOMAIN rule \cup DOMAIN updates |->
        IF f \in DOMAIN updates THEN updates[f] ELSE rule[f]]

\* saveConfig(config) of the configuration object after its rules were
\* changed in place
saveEdited(m, edited, writeThrows) ==
    saveConfig([m EXCEPT !.config = Some(edited)], edited, writeThrows)

addRule(m, rule, writeThrows) ==
    LET c == m.config[1]
    IN  saveEdited(m, [c EXCEPT !.rules = Append(@, rule)], writeThrows)

updateRule(m, ruleId, updates, writeThrows) ==
    LET c == m.config[1]
        ruleIndex == RuleIndex(c.rules, ruleId)
    IN  IF ruleIndex = 0 THEN [threw |-> TRUE, manager |-> m]
        ELSE saveEdited(m, [c EXCEPT !.rules[ruleIndex] = SpreadRule(@, updates)],
                        writeThrows)

deleteRule(m, ruleId, writeThrows) ==
    LET c == m.config[1]
        Other(r) == r.id # ruleId
    IN  saveEdited(m, [c EXCEPT !.rules = SelectSeq(@, Other)], writeThrows)

\* new Map(rules.map(r => [r.id, r])): of the rules of an id, the last
RuleMap(rules) ==
    [id \in {rules[i].id : i \in 1..Len(rules)} |->
        rules[CHOOSE i \in PositionsOf(rules, id) :
                  \A j \in PositionsOf(rules, id) : j <= i]]

reorderRules(m, ruleIds, writeThrows) ==
    LET c == m.config[1]
        ruleMap == RuleMap(c.rules)
        Known(id) == id \in DOMAIN ruleMap
        known == SelectSeq(ruleIds, Known)
        reorderedRules == [k \in 1..Len(known) |-> ruleMap[known[k]]]
        Missing(r) == \A k \in 1..Len(ruleIds) : ruleIds[k] # r.id
        missingRules == SelectSeq(c.rules, Missing)
    IN  saveEdited(m, [c EXCEPT !.rules = reorderedRules \o missingRules],
                   writeThrows)

\* The inputs of the edits.
AddedRules == {RuleCustom1, RuleCustom2}
EditedIds == {IdFreedium, IdCustom1}
RuleUpdates ==
    { [priority |-> 7],
      [name |-> NameCustom3, enabled |-> TRUE, matchers |-> <<PatX>>,
       transformationType |-> "prefix", template |-> TemplateCustom3,
       priority |-> 60] }
IdLists ==
    { <<IdCustom1, IdFreedium>>, <<IdCustom3, Id12ft>>, <<IdCustom1, IdCustom1>> }

\* An edit is called on a loaded manager; what is kept of it is the call,
\* the configuration before it and whether saveConfig threw.
EditCall(fn, ruleId, arg, saved) ==
    /\ SetManager(saved.manager)
    /\ configCall' = Some([fn |-> fn, ruleId |-> ruleId, arg |-> arg,
                           before |-> managerConfig[1],
                           found |-> fn # "updateRule"
                                       \/ RuleIndex(managerConfig[1].rules, ruleId) # 0,
                           saveThrew |-> saved.threw
                                /\ ( fn # "updateRule"
                                     \/ RuleIndex(managerConfig[1].rules, ruleId) # 0 )])
    /\ configEdits' = configEdits + 1
    /\ UNCHANGED <<loadReturn, configLoads, tvars, fvars, pvars, lvars, uvars, nvars>>

Editable ==
    /\ managerConfig # Null
    /\ configEdits < MaxConfigEdits

AddRule ==
    /\ Editable
    /\ \E rule \in AddedRules, writeThrows \in BOOLEAN :
         EditCall("addRule", rule.id, rule, addRule(Manager, rule, writeThrows))

UpdateRule ==
    /\ Editable
    /\ \E ruleId \in EditedIds, updates \in RuleUpdates, writeThrows \in BOOLEAN :
         EditCall("updateRule", ruleId, updates,
                  updateRule(Manager, ruleId, updates, writeThrows))

DeleteRule ==
    /\ Editable
    /\ \E ruleId \in EditedIds, writeThrows \in BOOLEAN :
         EditCall("deleteRule", ruleId, << >>,
                  deleteRule(Manager, ruleId, writeThrows))

ReorderRules ==
    /\ Editable
    /\ \E ruleIds \in IdLists, writeThrows \in BOOLEAN :
         EditCall("reorderRules", << >>, ruleIds,
                  reorderRules(Manager, ruleIds, writeThrows))

\* The files the manager finds: none, or one it wrote in an earlier session.
SavedRuleLists == { <<EditedFreedium, RuleCustom1>> }

RulesInit ==
    /\ configFile \in {Null} \cup
         {Some(StringifyConfig([getDefaultConfig EXCEPT !.rules = rules])) :
            rules \in SavedRuleLists}
    /\ managerConfig = Null
    /\ loadReturn = Null
    /\ configLoads = 0
    /\ configCall = Null
    /\ configEdits = 0
    /\ NoNoteService
    /\ NewTransformer
    /\ NoFinder
    /\ NoParser
    /\ NoPlugin
    /\ NoFunctions

RulesNext ==
    \/ LoadConfig
    \/ AddRule
    \/ UpdateRule
    \/ DeleteRule
    \/ ReorderRules
    \/ ToggleRule

SpecRules == RulesInit /\ [][RulesNext]_vars

\* no two rules of a list have the same id
UniqueIds(rules) ==
    \A i, j \in 1..Len(rules) : rules[i].id = rules[j].id => i = j

\* C31 (as claimed): after loadConfig and any sequence of edits, no two rules
\* of the configuration, in memory or in the file, have the same id.
C31_RuleIdsStayUnique ==
    /\ managerConfig # Null => UniqueIds(managerConfig[1].rules)
    /\ (configFile # Null /\ configFile[1].rules # Null)
         => UniqueIds(configFile[1].rules[1])

\* the last loadConfig read the file that the edit before it had saved
LoadedAfterSavedEdit ==
    /\ loadReturn # Null
    /\ loadReturn[1].after # Null
    /\ loadReturn[1].after[1].found
    /\ ~loadReturn[1].after[1].saveThrew
    /\ ~loadReturn[1].readThrew

\* C32: when an edit has been saved and loadConfig then reads the file, the
\* configuration returned has the rules as the edit left them, in place and
\* with every attribute, before any built-in rule that is added: a deleted
\* rule that is not built in is absent, an updated or toggled rule (built in
\* or not) has the attributes given, and every other rule is as it was.
C32_EditsSurviveRoundTrip ==
    LoadedAfterSavedEdit =>
      LET edit   == loadReturn[1].after[1]
          before == edit.before.rules
          loaded == loadReturn[1].value.rules
          Other(r) == r.id # edit.ruleId
          k == RuleIndex(before, edit.ruleId)
      IN  /\ ( edit.fn = "deleteRule" /\ edit.ruleId \notin DefaultRuleIds )
             => ( /\ PositionsOf(loaded, edit.ruleId) = {}
                  /\ SubSeq(loaded, 1, Len(SelectSeq(before, Other)))
                       = SelectSeq(before, Other) )
          /\ edit.fn \in {"updateRule", "toggleRule"}
             => ( /\ Len(loaded) >= Len(before)
                  /\ \A f \in DOMAIN edit.arg : loaded[k][f] = edit.arg[f]
                  /\ \A f \in DOMAIN before[k] \ DOMAIN edit.arg :
                         loaded[k][f] = before[k][f]
                  /\ \A i \in 1..Len(before) : i # k => loaded[i] = before[i] )
          /\ edit.fn = "addRule"
             => SubSeq(loaded, 1, Len(before) + 1) = Append(before, edit.arg)

\* a built-in rule was given another priority, the edit saved, and loadConfig
\* has returned the rule with that priority and the user's rule as it was
C32_Witness ==
    /\ LoadedAfterSavedEdit
    /\ loadReturn[1].after[1].fn = "updateRule"
    /\ loadReturn[1].after[1].ruleId = IdFreedium
    /\ loadReturn[1].after[1].arg = [priority |-> 7]
    /\ loadReturn[1].after[1].before.rules[1] = EditedFreedium
    /\ loadReturn[1].value.rules[1] = [EditedFreedium EXCEPT !.priority = 7]
    /\ loadReturn[1].value.rules[2] = RuleCustom1

\* the positions of rules whose id is among ruleIds
ListedIn(rules, ruleIds) ==
    {i \in 1..Len(rules) : \E k \in 1..Len(ruleIds) : ruleIds[k] = rules[i].id}

\* how many times rule r occurs in rules
Occurrences(rules, r) == Cardinality({i \in 1..Len(rules) : rules[i] = r})

\* the last edit was reorderRules and was saved
Reordered ==
    /\ configCall # Null
    /\ configCall[1].fn = "reorderRules"
    /\ ~configCall[1].saveThrew

\* C35 (as claimed): reorderRules only permutes the rules: whatever ids it is
\* given, the configuration afterwards has each rule it had before exactly
\* as often as before and nothing else, the rules of the listed ids first
\* in the order of the list and the others after them in their order.
C35_ReorderOnlyPermutes ==
    Reordered =>
      LET before == configCall[1].before.rules
          after  == managerConfig[1].rules
          ruleIds == configCall[1].arg
          Unlisted(r) == \A k \in 1..Len(ruleIds) : ruleIds[k] # r.id
          n == Len(after) - Len(SelectSeq(before, Unlisted))
      IN  /\ Len(after) = Len(before)
          /\ \A i \in 1..Len(before) :
                 Occurrences(after, before[i]) = Occurrences(before, before[i])
          /\ \A i \in 1..Len(after) : \E j \in 1..Len(before) : after[i] = before[j]
          /\ SubSeq(after, n + 1, Len(after)) = SelectSeq(before, Unlisted)
          /\ \A i \in 1..n : ~Unlisted(after[i])

\* the last edit ended with saveConfig throwing
EditSaveThrew ==
    /\ configCall # Null
    /\ configCall[1].fn \in {"addRule", "updateRule", "deleteRule", "reorderRules"}
    /\ configCall[1].saveThrew

\* C36 (as claimed): when saveConfig throws in addRule, updateRule, deleteRule
\* or reorderRules, the configuration getConfig returns is the one from
\* before the call.
C36_FailedSaveLeavesConfig ==
    EditSaveThrew => managerConfig[1] = configCall[1].before

\* instance k is loaded and none of its settings handlers is in progress
LoadedAndSettled(k) ==
    /\ plugins[k].onload = "done"
    /\ ~plugins[k].unloaded
    /\ plugins[k].saving = 0

\* C37 (as claimed): once the plugin is loaded and its settings handlers are
\* over, it has a live auto-processing timer exactly when auto-processing is
\* enabled with a folder, and the period of the timer is the frequency of
\* the configuration.
C37_TimerFollowsSettings ==
    \A k \in DOMAIN plugins :
        LoadedAndSettled(k) =>
          LET autoProcessing == plugins[k].config[1]
              live == {id \in LiveTimers : timers[id].owner = k}
          IN  /\ live # {} <=> ( /\ autoProcessing.enabled
                                 /\ autoProcessing.folderPath # << >> )
              /\ \A id \in live : timers[id].period = autoProcessing.frequencyMinutes

\* the log of a call has the append of the fetched content
Appended(log) ==
    \E n \in LogEvents(log, "write") : log[n].arg = "append"

\* the step in which the append task i awaits fails
AppendFails(i) ==
    /\ tasks[i].pc = "append"
    /\ tasks'[i].log # << >>
    /\ \E n \in LogEvents(tasks'[i].log, "threw") : n = Len(tasks'[i].log) - 1

\* C38: in the flows that check the marker, a document gets the marker only
\* from the flow that has appended the fetched content to it, after the
\* append: the step that sets article_processed is the write of
\* markFileAsProcessed of a call whose append is done, and the document has
\* the appended content before and after that step; a marked document always
\* has appended content; and when the append fails nothing is written, the
\* call returns (false, in the scheduled flow) and does not go on to the
\* marker.
C38_MarkerOnlyAfterAppend ==
    [][ /\ \A f \in DOMAIN vault :
             /\ isFileProcessed(vault'[f]) => vault'[f].articles >= 1
             /\ ( ~isFileProcessed(vault[f]) /\ isFileProcessed(vault'[f]) )
                => ( /\ vault[f].articles >= 1
                     /\ \E i \in Slots :
                          /\ tasks[i].file = f
                          /\ tasks[i].pc = "markModify"
                          /\ tasks[i].fn = "autoProcessFileIfLonger"
                               \/ tasks[i].checkProcessed
                          /\ Appended(tasks[i].log)
                          /\ tasks'[i] # tasks[i] )
        /\ \A i \in Slots :
             /\ tasks'[i].pc \in {"markRead", "markModify"} => Appended(tasks'[i].log)
             /\ AppendFails(i)
                => ( /\ vault' = vault
                     /\ autoAppends' = autoAppends
                     /\ ~isFileProcessed(vault'[tasks[i].file])
                     /\ Last(tasks'[i].log).ev = "return"
                     /\ tasks[i].fn = "autoProcessFileIfLonger"
                          => Last(tasks'[i].log).arg = Some(FALSE) )
      ]_vars

\* a scheduled pass is over whose append to the second note failed: the
\* note has no appended content and no marker, while the first note, whose
\* append was done, has both
C38_Witness ==
    \E i \in Slots :
        /\ tasks[i].op = "autoProcessFolder"
        /\ tasks[i].pc = "done"
        /\ Last(tasks[i].log).file = PathNoteB
        /\ LogEvents(tasks[i].log, "threw") # {}
        /\ vault[PathNoteB].articles = 0
        /\ ~isFileProcessed(vault[PathNoteB])
        /\ vault[PathNote].articles = 1
        /\ isFileProcessed(vault[PathNote])

(***************************************************************************)
(* The lifetime of the health cache.                                       *)
(***************************************************************************)

\* a step in which an operation starts in slot i
Starts(i) == tasks[i].pc = "done" /\ tasks'[i].pc # "done"

\* C39: the health cache lives as long as one parser. Every operation (a
\* command, or a scheduled run) starts with a transformer whose cache is
\* empty, and the first transformation of a run that a rule sends to an
\* origin issues a HEAD request, whatever an earlier run found out about this
\* origin and however recently.
C39_CacheLivesWithParser ==
    [][ \A i \in Slots :
          /\ Starts(i)
             => /\ tasks'[i].ut.healthCache = EmptyMap
                /\ tasks'[i].ut.requests = << >>
          /\ ( /\ StartsTransform(i)
               /\ tasks'[i].ut.call.rule # Null
               /\ tasks'[i].ut.call.proxyBaseUrl
                    \notin DOMAIN tasks[i].ut.healthCache )
             => ( /\ tasks'[i].pc = "probe"
                  /\ tasks'[i].ut.inflight # << >>
                  /\ Len(tasks'[i].ut.requests) = 1 )
      ]_vars

\* A scheduled run has appended an article to the note of x.com, so it found
\* the proxy of RuleCustom1 up, less than the time-to-live ago; the batch
\* command started after it awaits the answer to its own HEAD request to the
\* same origin.
C39_Witness ==
    /\ autoAppends[PathNote] = 1
    /\ now < cacheTtlMs
    /\ \E i \in Slots :
         /\ tasks[i].op = "processUrlBatch"
         /\ tasks[i].pc = "probe"
         /\ tasks[i].ut.call.proxyBaseUrl = OriginOf(UrlOther, RuleCustom1)
         /\ tasks[i].ut.healthCache = EmptyMap
         /\ tasks[i].ut.inflight # << >>

(***************************************************************************)
(* Two rules on one proxy: the rule of x.com, and a universal rule of      *)
(* lower priority whose template has the same scheme and host.             *)
(***************************************************************************)
RuleFallbackOnP ==
    [RuleCustom3 EXCEPT !.transformationType = "path-extraction",
                        !.template = TemplateCustom2]

SharedProxyConfigs ==
    [rules : {<<RuleCustom1, RuleFallbackOnP>>},
     autoProcessing : {[enabled |-> TRUE, folderPath |-> FolderArticles,
                        minContentLengthRatio |-> DefaultMinContentLengthRatio]}]

SharedProxyInit ==
    /\ vault \in BatchVaults
    /\ config \in SharedProxyConfigs
    /\ tasks = [i \in Slots |-> NoTask]
    /\ started = 0
    /\ autoAppends = [f \in DOMAIN vault |-> 0]
    /\ NewTransformer
    /\ NoFinder
    /\ NoPlugin
    /\ NoFunctions
    /\ NoConfigManager
    /\ NoNoteService

SpecSharedProxy == SharedProxyInit /\ [][BatchNext]_vars

\* the one origin of the two rules
OriginP == OriginOf(UrlOther, RuleCustom1)

\* the transformer of task i holds an entry of origin younger than the
\* time-to-live
CachedFresh(i, origin) ==
    /\ origin \in DOMAIN tasks[i].ut.healthCache
    /\ now - tasks[i].ut.healthCache[origin].lastChecked < cacheTtlMs

\* C33: the health cache is keyed by the origin (scheme and host) of the
\* transformed URL, not by the rule.  With two rules on one proxy the cache
\* never holds an entry under another key than the proxy's origin; an entry
\* younger than the time-to-live answers the check made for either rule with
\* no request, whichever rule's check wrote it; and the check that ends on a
\* request, made for either rule, writes this one entry.
C33_CacheKeyedByOrigin ==
    [][ \A i \in Slots :
          /\ DOMAIN tasks'[i].ut.healthCache \subseteq {OriginP}
          /\ ( StartsTransform(i) /\ tasks'[i].ut.call.rule # Null )
             => tasks'[i].ut.call.proxyBaseUrl
                  = OriginOf(tasks'[i].ut.call.url, tasks'[i].ut.call.rule[1])
          /\ ( /\ StartsTransform(i)
               /\ tasks'[i].ut.call.rule # Null
               /\ CachedFresh(i, tasks'[i].ut.call.proxyBaseUrl) )
             => ( /\ tasks'[i].pc = "transformed"
                  /\ tasks'[i].ut.requests = << >>
                  /\ tasks'[i].ut.inflight = << >>
                  /\ tasks'[i].ut.healthCache = tasks[i].ut.healthCache
                  /\ tasks'[i].ut.result[1].proxyHealthy
                       = tasks[i].ut.healthCache[tasks'[i].ut.call.proxyBaseUrl].healthy )
          /\ ( tasks[i].pc = "probe" /\ tasks'[i].ut.pc = "returned" )
             => tasks'[i].ut.healthCache
                  = MapSet(tasks[i].ut.healthCache, tasks[i].ut.call.proxyBaseUrl,
                           [healthy |-> tasks'[i].ut.result[1].proxyHealthy,
                            lastChecked |-> now])
      ]_vars

\* In a batch, the check for the universal rule (for medium.com) has returned
\* healthy with no request of its own: the only requests of the operation
\* were made for the rule of x.com.
C33_Witness ==
    \E i \in Slots :
        /\ tasks[i].fn = "processUrlBatch"
        /\ tasks[i].pc = "transformed"
        /\ tasks[i].ut.call.url = UrlMedium
        /\ tasks[i].ut.call.rule = Some(RuleFallbackOnP)
        /\ tasks[i].ut.requests = << >>
        /\ tasks[i].ut.result[1].transformedUrl
             = Some(applyTransformation(UrlMedium, RuleFallbackOnP))
        /\ LogEvents(tasks[i].log, "probe") # {}
        /\ \A n \in LogEvents(tasks[i].log, "probe") :
             tasks[i].log[n].arg = applyTransformation(TEST_URL, RuleCustom1)
        /\ DOMAIN tasks[i].ut.healthCache = {OriginP}
        /\ OriginOf(UrlMedium, RuleFallbackOnP) = OriginP

\* the operations whose transformer has a HEAD request to origin, or to the
\* test URL of a rule on origin, in flight
ProbingOrigin(origin) ==
    {i \in Slots : /\ tasks[i].pc = "probe"
                   /\ tasks[i].ut.inflight # << >>
                   /\ tasks[i].ut.call.proxyBaseUrl = origin}

\* C34 (as claimed): there are never two health probes of one proxy origin in
\* flight at the same time; no other operation (a scheduled run, an
\* overlapping tick of the timer, a command of the user) checks an origin
\* while the check of one operation is between its read of the cache and its
\* write.
C34_OneProbePerOriginInFlight ==
    \A i \in Slots :
        tasks[i].pc = "probe"
            => Cardinality(ProbingOrigin(tasks[i].ut.call.proxyBaseUrl)) <= 1

====
